---- MODULE Spec2Model ----
(***************************************************************************)
(* Model of diecut's three-way update/merge engine, update orchestrator,   *)
(* variable resolution engine, materializer, answers file, config          *)
(* validation, template cache and template composition.                    *)
(*                                                                         *)
(* A directory tree is a function from relative paths to file contents;    *)
(* its DOMAIN is the set of files of the tree.  A relative path is the     *)
(* sequence of the dot-separated segments of a file name ("a.rej" is       *)
(* <<"a", "rej">>); a file content is the sequence of its lines.           *)
(***************************************************************************)
EXTENDS Naturals, Integers, Sequences, FiniteSets, TLC

(* ------------------------------ bounds -------------------------------- *)

\* number of distinct one-line file contents a tree may hold
NumContents == 3

\* number of relative paths populated in the three trees of one merge
MaxFiles == 2

\* number of computed variables a template declares
MaxComputed == 3

\* number of references in one computed expression
MaxRefs == 2

\* number of files in a template directory
MaxEntries == 2

\* number of materializations into one output directory
MaxRuns == 2

\* number of consecutive runs of update_project on one project
MaxUpdates == 2

\* number of processes calling get_or_clone for one key at the same time
NumProcs == 2

\* number of templates an extends chain can pass through
MaxTemplates == 3

(* ------------------------- paths and contents ------------------------- *)

\* the relative paths the three trees draw their files from
Paths == { <<"a">>, <<"a", "rej">>, <<"a", "removing">> }

\* byte order of the file-name segments in use ("rej" < "removing": 'j' < 'm')
SegRank(s) ==
  CASE s = "a" -> 1
    [] s = "rej" -> 2
    [] s = "removing" -> 3
    [] OTHER -> 4

RECURSIVE PathLess(_, _)
\* Ord for PathBuf, used by all_paths.sort(): lexicographic, a prefix first
PathLess(p, q) ==
  IF p = <<>> THEN q # <<>>
  ELSE IF q = <<>> THEN FALSE
  ELSE IF Head(p) = Head(q) THEN PathLess(Tail(p), Tail(q))
  ELSE SegRank(Head(p)) < SegRank(Head(q))

RECURSIVE Display(_)
\* Path::display(): the segments joined by dots
Display(p) ==
  IF Len(p) = 1 THEN p[1] ELSE p[1] \o "." \o Display(Tail(p))

\* Path::extension(): the last segment of a name with more than one
Extension(p) == IF Len(p) > 1 THEN <<p[Len(p)]>> ELSE <<>>

\* Path::with_extension(ext): the stem followed by the segments of ext
WithExtension(p, ext) ==
  IF Len(p) > 1 THEN SubSeq(p, 1, Len(p) - 1) \o ext ELSE p \o ext

\* the ".rej" sibling: with_extension(format!("{}.rej", e)) or "rej"
RejPath(p) ==
  WithExtension(p, IF Extension(p) # <<>> THEN Extension(p) \o <<"rej">>
                   ELSE <<"rej">>)

\* the ".removing" sibling: with_extension(format!("{}.removing", e))
RemovingPath(p) ==
  WithExtension(p, IF Extension(p) # <<>> THEN Extension(p) \o <<"removing">>
                   ELSE <<"removing">>)

\* the one-line file contents
FileContent(n) == << "c" \o ToString(n) >>

Contents == { FileContent(n) : n \in 1..NumContents }

\* the trees over a set of paths: every subset populated with any contents
TreesOver(S) == UNION { [D -> Contents] : D \in SUBSET S }

(* --------------------------- update::diff ----------------------------- *)

\* collect_files: the relative paths of the files of a tree
collect_files(tree) == DOMAIN tree

\* files_equal: byte equality of two files
files_equal(tree_a, tree_b, p) == tree_a[p] = tree_b[p]

\* std::fs::read_to_string(..).unwrap_or_default(): no file reads as ""
read_to_string(tree, p) == IF p \in DOMAIN tree THEN tree[p] ELSE <<>>

\* the lines of a text, each prefixed by a diff sign
Prefixed(sign, text) == [i \in 1..Len(text) |-> sign \o text[i]]

\* unified_diff: the header, then one hunk removing the old lines and
\* adding the new ones when the texts differ (texts that share no line)
unified_diff(old, new, path) ==
  << "--- a/" \o Display(path), "+++ b/" \o Display(path) >>
    \o (IF old = new THEN <<>>
        ELSE <<"@@">> \o Prefixed("-", old) \o Prefixed("+", new))

(* --------------------------- update::merge ---------------------------- *)

MergeAction ==
  { "UpdateFromTemplate", "AddFromTemplate", "MarkForRemoval", "KeepUser",
    "Conflict", "Unchanged" }

\* the (true, true, true) arm without its convergence check
AllThreeNoConvergence(project, old, new, rel_path) ==
  LET user_changed == ~files_equal(project, old, rel_path)
      template_changed == ~files_equal(old, new, rel_path)
  IN  IF ~user_changed /\ ~template_changed THEN "Unchanged"
      ELSE IF ~user_changed /\ template_changed THEN "UpdateFromTemplate"
      ELSE IF user_changed /\ ~template_changed THEN "KeepUser"
      ELSE "Conflict"

\* the (true, true, true) arm of three_way_merge: compare contents
AllThree(project, old, new, rel_path) ==
  LET user_changed == ~files_equal(project, old, rel_path)
      template_changed == ~files_equal(old, new, rel_path)
  IN  IF ~user_changed /\ ~template_changed THEN "Unchanged"
      ELSE IF ~user_changed /\ template_changed THEN "UpdateFromTemplate"
      ELSE IF user_changed /\ ~template_changed THEN "KeepUser"
      ELSE IF files_equal(project, new, rel_path) THEN "Unchanged"
      ELSE "Conflict"

\* the (true, false, true) arm marking the file whatever the user did
TemplateRemovedAlwaysMarks(project, old, rel_path) == "MarkForRemoval"

\* the (true, false, true) arm: the template removed the file
TemplateRemoved(project, old, rel_path) ==
  LET user_changed == ~files_equal(project, old, rel_path)
  IN  IF user_changed THEN "Conflict" ELSE "MarkForRemoval"

\* the (false, true, true) arm: both sides added the file
BothAdded(project, new, rel_path) ==
  IF files_equal(project, new, rel_path) THEN "Unchanged" ELSE "Conflict"

\* the (true, true, false) arm reporting every user deletion as a conflict
UserDeletedAlwaysConflict(old, new, rel_path) == "Conflict"

\* the (true, true, false) arm: the user deleted the file
UserDeleted(old, new, rel_path) ==
  IF files_equal(old, new, rel_path) THEN "KeepUser" ELSE "Conflict"

\* the match of three_way_merge: the action of one relative path
Classify(project, old, new, rel_path) ==
  LET in_project == rel_path \in collect_files(project)
      in_old == rel_path \in collect_files(old)
      in_new == rel_path \in collect_files(new)
  IN  CASE in_old /\ in_new /\ in_project ->
             AllThree(project, old, new, rel_path)
        [] ~in_old /\ in_new /\ ~in_project -> "AddFromTemplate"
        [] in_old /\ ~in_new /\ in_project ->
             TemplateRemoved(project, old, rel_path)
        [] ~in_old /\ ~in_new /\ in_project -> "KeepUser"
        [] ~in_old /\ in_new /\ in_project ->
             BothAdded(project, new, rel_path)
        [] in_old /\ ~in_new /\ ~in_project -> "Unchanged"
        [] in_old /\ in_new /\ ~in_project -> UserDeleted(old, new, rel_path)
        [] ~in_old /\ ~in_new /\ ~in_project -> "Unchanged"

\* the least path of a non-empty set
MinPath(S) == CHOOSE p \in S : \A q \in S \ {p} : PathLess(p, q)

RECURSIVE SortedPaths(_)
\* all_paths.sort(): the paths of a set in increasing order
SortedPaths(S) ==
  IF S = {} THEN <<>>
  ELSE LET m == MinPath(S) IN <<m>> \o SortedPaths(S \ {m})

RECURSIVE MergeLoopKeepsUnchanged(_, _, _, _)
\* the loop of three_way_merge without its skip: every path is reported
MergeLoopKeepsUnchanged(project, old, new, all_paths) ==
  IF all_paths = <<>> THEN <<>>
  ELSE LET rel_path == Head(all_paths)
           action == Classify(project, old, new, rel_path)
       IN  <<[rel_path |-> rel_path, action |-> action]>>
             \o MergeLoopKeepsUnchanged(project, old, new, Tail(all_paths))

RECURSIVE MergeLoop(_, _, _, _)
\* the loop of three_way_merge over all_paths: Unchanged paths are skipped
MergeLoop(project, old, new, all_paths) ==
  IF all_paths = <<>> THEN <<>>
  ELSE LET rel_path == Head(all_paths)
           action == Classify(project, old, new, rel_path)
           rest == MergeLoop(project, old, new, Tail(all_paths))
       IN  IF action # "Unchanged"
           THEN <<[rel_path |-> rel_path, action |-> action]>> \o rest
           ELSE rest

\* three_way_merge: the non-Unchanged entries of the union of the file sets
three_way_merge(project, old, new) ==
  MergeLoop(project, old, new,
            SortedPaths(collect_files(project) \cup collect_files(old)
                          \cup collect_files(new)))

\* std::fs::write / std::fs::copy: a plain overwrite of one file
WriteFile(tree, p, content) ==
  [q \in DOMAIN tree \cup {p} |-> IF q = p THEN content ELSE tree[q]]

\* the message of a removal marker
RemovalMsg ==
  << "This file was removed in the updated template.",
     "Review and delete it manually if no longer needed." >>

\* the content of the .rej file of a conflict
RejContent(project, new, old, rel_path) ==
  LET user_content == read_to_string(project, rel_path)
      new_content == read_to_string(new, rel_path)
  IN  IF rel_path \in DOMAIN old
      THEN << "# Conflict in " \o Display(rel_path),
              "# Your file differs from both the old and new template versions.",
              "## Template changes (old -> new):" >>
             \o unified_diff(read_to_string(old, rel_path), new_content, rel_path)
             \o << "## Your version vs new template:" >>
             \o unified_diff(user_content, new_content, rel_path)
      ELSE << "# Conflict in " \o Display(rel_path),
              "# Both you and the template created/modified this file differently.",
              "## Diff (your version vs template):" >>
             \o unified_diff(user_content, new_content, rel_path)

\* one iteration of apply_merge that copies updated files only, not added
ApplyEntryUpdateOnly(project, new, old, result) ==
  CASE result.action = "UpdateFromTemplate" ->
         WriteFile(project, result.rel_path, new[result.rel_path])
    [] result.action = "MarkForRemoval" ->
         WriteFile(project, RemovingPath(result.rel_path), RemovalMsg)
    [] result.action = "Conflict" ->
         WriteFile(project, RejPath(result.rel_path),
                   RejContent(project, new, old, result.rel_path))
    [] OTHER -> project

\* one iteration of the loop of apply_merge: the effect of one entry
ApplyEntry(project, new, old, result) ==
  CASE result.action \in {"UpdateFromTemplate", "AddFromTemplate"} ->
         WriteFile(project, result.rel_path, new[result.rel_path])
    [] result.action = "MarkForRemoval" ->
         WriteFile(project, RemovingPath(result.rel_path), RemovalMsg)
    [] result.action = "Conflict" ->
         WriteFile(project, RejPath(result.rel_path),
                   RejContent(project, new, old, result.rel_path))
    [] OTHER -> project

RECURSIVE ApplyLoop(_, _, _, _, _)
\* the first k iterations of the loop of apply_merge, in the order of results
ApplyLoop(project, new, old, results, k) ==
  IF k = 0 THEN project
  ELSE ApplyEntry(ApplyLoop(project, new, old, results, k - 1), new, old,
                  results[k])

\* apply_merge returning Ok: every entry applied
apply_merge(project, new, old, results) ==
  ApplyLoop(project, new, old, results, Len(results))

(* --------------------------- config::schema --------------------------- *)

\* the name of the i-th computed variable
ComputedName(i) == "c" \o ToString(i)

\* the variable names of the model in the order of String's Ord
NameOrder ==
  <<"a", "b">> \o [i \in 1..MaxComputed |-> ComputedName(i)] \o <<"n1", "u">>

\* the position of a name in that order
NameRank(name) == CHOOSE i \in 1..Len(NameOrder) : NameOrder[i] = name

\* TemplateConfig.variables, a BTreeMap<String, VariableConfig>: the [variables]
\* tables of diecut.toml keyed by name, iterated in the order of the names
BTreeMap(declared) ==
  [k \in 1..Len(declared) |->
     declared[CHOOSE i \in 1..Len(declared) :
                Cardinality({ j \in 1..Len(declared) :
                                NameRank(declared[j].name)
                                  < NameRank(declared[i].name) }) = k - 1]]

(* --------------------------- prompt::engine --------------------------- *)

\* Option<T>: None is the empty sequence, Some(x) the sequence of x alone
None == <<>>

Some(x) == <<x>>

\* a tera::Value: its kind and its rendered text
Val(kind, text) == <<kind, text>>

TextOf(value) == value[2]

\* an expression "lit{{ r1 }}{{ r2 }}..": a literal, then variable references
Expr(lit, refs) == [lit |-> lit, refs |-> refs]

RECURSIVE RenderRefs(_, _)
\* the rendered values of a sequence of references, concatenated
RenderRefs(refs, values) ==
  IF refs = <<>> THEN ""
  ELSE TextOf(values[Head(refs)]) \o RenderRefs(Tail(refs), values)

\* tera.render: fails on a reference that is not in the context
TeraRender(expr, values) ==
  IF \A i \in 1..Len(expr.refs) : expr.refs[i] \in DOMAIN values
  THEN [ok |-> TRUE, text |-> expr.lit \o RenderRefs(expr.refs, values)]
  ELSE [ok |-> FALSE, text |-> ""]

\* an undefined reference renders as nothing instead of failing
evaluate_computed_lenient(name, computed_expr, values) ==
  [ok |-> TRUE, name |-> name,
   value |-> Val("string",
                 TeraRender([computed_expr EXCEPT
                               !.refs = SelectSeq(@, LAMBDA r :
                                                     r \in DOMAIN values)],
                            values).text)]

\* evaluate_computed: the rendered expression as a string value, or a
\* ComputedEvaluation error tagged with the variable's name
evaluate_computed(name, computed_expr, values) ==
  LET r == TeraRender(computed_expr, values)
  IN  IF r.ok THEN [ok |-> TRUE, value |-> Val("string", r.text), name |-> name]
      ELSE [ok |-> FALSE, value |-> Val("string", ""), name |-> name]

\* the strings str::parse::<i64> accepts, among the strings of the model
IsI64(s) == s \in {"0", "1", "7"}

\* the strings str::parse::<f64> accepts, among the strings of the model
IsF64(s) == IsI64(s) \/ s \in {"1.5", "nan"}

\* serde_json::to_value(f64): a finite float is a Number printed with its
\* fraction, a float that is not finite is Null
FloatValue(s) ==
  IF s = "nan" THEN Val("null", "")
  ELSE IF IsI64(s) THEN Val("float", s \o ".0")
  ELSE Val("float", s)

\* value.split(',') with each item trimmed, as an array of strings
SplitArray(s) ==
  IF s = "x,y" THEN Val("array", "[x, y]") ELSE Val("array", "[" \o s \o "]")

\* truthiness of a value in {% if %}: a true bool, a number that is not
\* zero, a string or an array that is not empty
Truthy(value) ==
  IF value[1] = "bool" THEN value[2] = "true"
  ELSE IF value[1] = "null" THEN FALSE
  ELSE IF value[1] = "int" THEN value[2] # "0"
  ELSE IF value[1] = "float" THEN value[2] # "0.0"
  ELSE IF value[1] = "array" THEN value[2] # "[]"
  ELSE value[2] # ""

\* an undefined reference is truthy
evaluate_when_undefined_truthy(name, when_expr, values) ==
  when_expr \in DOMAIN values => Truthy(values[when_expr])

\* evaluate_when: "{% if when_expr %}"; an undefined reference is falsy
evaluate_when(name, when_expr, values) ==
  when_expr \in DOMAIN values /\ Truthy(values[when_expr])

\* parse_override: the override string coerced to the variable's kind, kept
\* as a string when an int or a float does not parse
parse_override(value, var) ==
  IF var.var_type = "bool"
    THEN Val("bool", IF value \in {"true", "1", "yes"} THEN "true" ELSE "false")
  ELSE IF var.var_type = "int"
    THEN IF IsI64(value) THEN Val("int", value) ELSE Val("string", value)
  ELSE IF var.var_type = "float"
    THEN IF IsF64(value) THEN FloatValue(value) ELSE Val("string", value)
  ELSE IF var.var_type = "multiselect"
    THEN SplitArray(value)
  ELSE Val("string", value)

\* toml_to_tera_value: the value of the same TOML kind, whatever the kind
\* the variable declares
toml_to_tera_value(val) ==
  IF val[1] = "Boolean" THEN Val("bool", val[2])
  ELSE IF val[1] = "Integer" THEN Val("int", val[2])
  ELSE IF val[1] = "Float"
    THEN IF val[2] = "nan" THEN Val("null", "") ELSE Val("float", val[2])
  ELSE IF val[1] = "Array" THEN Val("array", val[2])
  ELSE Val("string", val[2])

\* prompt_variable: the answer typed at the prompt as a value of the
\* variable's kind, or PromptCancelled (None)
prompt_variable(var, input) ==
  IF input = None THEN None
  ELSE IF var.var_type = "bool" THEN Some(Val("bool", "true"))
  ELSE IF var.var_type = "int" THEN Some(Val("int", "1"))
  ELSE IF var.var_type = "float" THEN Some(Val("float", "1.5"))
  ELSE IF var.var_type = "multiselect" THEN Some(Val("array", "[x]"))
  ELSE Some(Val("string", input[1]))

\* values.insert(name, value)
Insert(values, name, value) ==
  [n \in DOMAIN values \cup {name} |-> IF n = name THEN value ELSE values[n]]

RECURSIVE Phase1(_, _, _, _)
\* the first loop of collect_variables over config.variables, in order:
\* computed variables and variables whose when is false are skipped, an
\* override wins, then the default under use_defaults, then the prompt
Phase1(variables, options, answers, values) ==
  IF variables = <<>> THEN [ok |-> TRUE, values |-> values]
  ELSE LET var == Head(variables)
           rest == Tail(variables)
       IN  IF var.computed # None
             THEN Phase1(rest, options, answers, values)
           ELSE IF var.when # None
                   /\ ~evaluate_when(var.name, var.when[1], values)
             THEN Phase1(rest, options, answers, values)
           ELSE IF var.name \in DOMAIN options.data_overrides
             THEN Phase1(rest, options, answers,
                    Insert(values, var.name,
                           parse_override(options.data_overrides[var.name],
                                          var)))
           ELSE IF options.use_defaults /\ var.default # None
             THEN Phase1(rest, options, answers,
                    Insert(values, var.name, toml_to_tera_value(var.default[1])))
           ELSE IF prompt_variable(var, answers[var.name]) = None
             THEN [ok |-> FALSE, values |-> values]
           ELSE Phase1(rest, options, answers,
                  Insert(values, var.name,
                         prompt_variable(var, answers[var.name])[1]))

\* SelectSeq for records: the (name, expression) pairs of the computed
\* variables, in the order of config.variables
RECURSIVE ComputedVars(_)
ComputedVars(variables) ==
  IF variables = <<>> THEN <<>>
  ELSE LET var == Head(variables)
       IN  IF var.computed # None
           THEN <<[name |-> var.name, expr |-> var.computed[1]]>>
                  \o ComputedVars(Tail(variables))
           ELSE ComputedVars(Tail(variables))

\* the names of the computed variables of a config
ComputedNamesOf(config) ==
  { config.variables[i].name :
      i \in { j \in 1..Len(config.variables) :
                config.variables[j].computed # None } }

\* the computed expression of a declared computed variable
ExprOf(config, name) ==
  (CHOOSE v \in { config.variables[i] : i \in 1..Len(config.variables) } :
     v.name = name).computed[1]

RECURSIVE RoundLoop(_, _, _)
\* one pass of the inner loop over remaining: a variable that evaluates is
\* inserted at once, one that fails is pushed to still_pending
RoundLoop(remaining, values, still_pending) ==
  IF remaining = <<>> THEN [values |-> values, still_pending |-> still_pending]
  ELSE LET c == Head(remaining)
           r == evaluate_computed(c.name, c.expr, values)
       IN  IF r.ok
           THEN RoundLoop(Tail(remaining), Insert(values, c.name, r.value),
                          still_pending)
           ELSE RoundLoop(Tail(remaining), values, Append(still_pending, c))

\* a single round, whatever the number of computed variables
MaxIterationsOne(computed_vars) == 1

\* max_iterations = remaining.len() + 1
MaxIterations(computed_vars) == Len(computed_vars) + 1

RECURSIVE Phase2(_, _, _, _, _)
\* the outer loop "for _ in 0..max_iterations": stops when nothing remains,
\* returns the error of the first pending variable when a round resolves none
Phase2(remaining, values, iteration, max_iterations, rounds) ==
  IF iteration >= max_iterations \/ remaining = <<>>
  THEN [ok |-> TRUE, values |-> values, rounds |-> rounds, error |-> None]
  ELSE LET r == RoundLoop(remaining, values, <<>>)
       IN  IF Len(r.still_pending) = Len(remaining)
           THEN [ok |-> FALSE, values |-> r.values, rounds |-> rounds + 1,
                 error |-> Some(<<"ComputedEvaluation", r.still_pending[1].name>>)]
           ELSE Phase2(r.still_pending, r.values, iteration + 1,
                       max_iterations, rounds + 1)

\* collect_variables: phase 1, then the computed variables to a fixed point
collect_variables(config, options, answers) ==
  LET p1 == Phase1(config.variables, options, answers, <<>>)
      computed_vars == ComputedVars(config.variables)
  IN  IF ~p1.ok
      THEN [ok |-> FALSE, values |-> p1.values, rounds |-> 0,
            error |-> Some(<<"PromptCancelled", "">>)]
      ELSE Phase2(computed_vars, p1.values, 0, MaxIterations(computed_vars), 0)

(* ------------------------------ answers ------------------------------ *)

\* the file load_answers reads, and the default of config.answers.file
AnswersFileName == ".diecut-answers.toml"

\* env!("CARGO_PKG_VERSION")
DiecutVersion == "0.1.0"

\* tera_value_to_toml: the TOML value of the same kind; Null (and Object)
\* have none
tera_value_to_toml(value) ==
  IF value[1] = "bool" THEN Some(<<"Boolean", value[2]>>)
  ELSE IF value[1] = "int" THEN Some(<<"Integer", value[2]>>)
  ELSE IF value[1] = "float" THEN Some(<<"Float", value[2]>>)
  ELSE IF value[1] = "array" THEN Some(<<"Array", value[2]>>)
  ELSE IF value[1] = "null" THEN None
  ELSE Some(<<"String", value[2]>>)

\* no variable counts as secret
IsSecretNever(config, name) == FALSE

\* config.variables.get(name) is a variable flagged secret
IsSecret(config, name) ==
  \E i \in 1..Len(config.variables) :
    config.variables[i].name = name /\ config.variables[i].secret

\* meta.insert(key, value) when the option holds a value
InsertSome(meta, key, opt) ==
  IF opt = None THEN meta ELSE Insert(meta, key, opt[1])

\* write_answers_with_source: the TOML document written to
\* output_dir.join(config.answers.file), with its [_diecut] and [variables]
\* tables; secret variables are skipped
write_answers_with_source(files, config, variables, template_source, template_ref, commit_sha) ==
  LET meta0 == Insert(<<>>, "template", config.template.name)
      meta1 == InsertSome(meta0, "version", config.template.version)
      meta2 == InsertSome(meta1, "template_source", template_source)
      meta3 == InsertSome(meta2, "template_ref", template_ref)
      meta4 == InsertSome(meta3, "commit_sha", commit_sha)
      meta5 == Insert(meta4, "diecut_version", DiecutVersion)
      kept == { n \in DOMAIN variables :
                  /\ ~IsSecret(config, n)
                  /\ tera_value_to_toml(variables[n]) # None }
      doc == [corrupt |-> FALSE, meta |-> meta5,
              variables |->
                [n \in kept |-> tera_value_to_toml(variables[n])[1]]]
  IN  Insert(files, config.answers.file, doc)

\* write_answers: write_answers_with_source with the fields of a SourceInfo
write_answers(files, config, variables, source_info) ==
  write_answers_with_source(files, config, variables, source_info.url,
                            source_info.git_ref, source_info.commit_sha)

\* get_str(key): the string under a key of the [_diecut] table
GetStr(meta, key) == IF key \in DOMAIN meta THEN Some(meta[key]) ELSE None

\* load_answers: NoAnswerFile when .diecut-answers.toml is missing, a parse
\* error when it is not TOML, else the SavedAnswers it holds
load_answers(files) ==
  IF AnswersFileName \notin DOMAIN files
    THEN [ok |-> FALSE, error |-> "NoAnswerFile"]
  ELSE IF files[AnswersFileName].corrupt
    THEN [ok |-> FALSE, error |-> "AnswerFileParseError"]
  ELSE LET meta == files[AnswersFileName].meta
       IN  [ok |-> TRUE,
            error |-> "",
            template_source |->
              IF GetStr(meta, "template_source") # None
                THEN meta["template_source"]
              ELSE IF GetStr(meta, "template") # None THEN meta["template"]
              ELSE "",
            template_ref |-> GetStr(meta, "template_ref"),
            commit_sha |-> GetStr(meta, "commit_sha"),
            diecut_version |->
              IF GetStr(meta, "diecut_version") # None
              THEN meta["diecut_version"] ELSE "0.0.0",
            answers |-> files[AnswersFileName].variables]

(* ------------------------------- update ------------------------------- *)

\* the URL "gh:u/t" expands to
GitUrl == "https://github.com/u/t.git"

\* resolve_source: an abbreviation or a git URL is a Git source, anything
\* else a local path
resolve_source(template_arg) ==
  IF template_arg = "gh:u/t" THEN [kind |-> "Git", url |-> GitUrl]
  ELSE IF template_arg = GitUrl THEN [kind |-> "Git", url |-> template_arg]
  ELSE [kind |-> "Local", url |-> template_arg]

\* get_or_clone(url, git_ref): the template at the ref, the default branch
\* when there is no ref, with its commit
get_or_clone(remote, git_ref) ==
  IF git_ref = None THEN remote["HEAD"] ELSE remote[git_ref[1]]

\* toml_value_to_tera: the tera value of a saved TOML value
toml_value_to_tera(value) ==
  IF value[1] = "Boolean" THEN Val("bool", value[2])
  ELSE IF value[1] = "Integer" THEN Val("int", value[2])
  ELSE IF value[1] = "Float" THEN Val("float", value[2])
  ELSE IF value[1] = "Array" THEN Val("array", value[2])
  ELSE Val("string", value[2])

RECURSIVE ApplyDefaults(_, _)
\* the first loop of build_variables_from_answers: the declared defaults
ApplyDefaults(variables, values) ==
  IF variables = <<>> THEN values
  ELSE LET var == Head(variables)
       IN  ApplyDefaults(Tail(variables),
             IF var.default # None
             THEN Insert(values, var.name, toml_value_to_tera(var.default[1]))
             ELSE values)

\* the second loop: every saved answer overrides
ApplyAnswers(answers, values) ==
  [n \in DOMAIN values \cup DOMAIN answers |->
     IF n \in DOMAIN answers THEN toml_value_to_tera(answers[n]) ELSE values[n]]

RECURSIVE BuildRound(_, _, _)
\* one pass over computed_vars: a name already in variables is skipped, an
\* expression that renders is inserted and counts as progress
BuildRound(computed_vars, values, progress) ==
  IF computed_vars = <<>> THEN [values |-> values, progress |-> progress]
  ELSE LET c == Head(computed_vars)
           r == TeraRender(c.expr, values)
       IN  IF c.name \in DOMAIN values
             THEN BuildRound(Tail(computed_vars), values, progress)
           ELSE IF r.ok
             THEN BuildRound(Tail(computed_vars),
                             Insert(values, c.name, Val("string", r.text)),
                             TRUE)
           ELSE BuildRound(Tail(computed_vars), values, progress)

RECURSIVE BuildLoop(_, _, _)
\* "for _ in 0..computed_vars.len() + 1", left when a pass makes no progress
BuildLoop(computed_vars, values, iterations) ==
  IF iterations = 0 THEN values
  ELSE LET r == BuildRound(computed_vars, values, FALSE)
       IN  IF ~r.progress THEN r.values
           ELSE BuildLoop(computed_vars, r.values, iterations - 1)

\* build_variables_from_answers: defaults, then the saved answers, then the
\* computed variables that are not yet in the map
build_variables_from_answers(answers, resolved) ==
  LET computed_vars == ComputedVars(resolved.config.variables)
  IN  BuildLoop(computed_vars,
                ApplyAnswers(answers,
                             ApplyDefaults(resolved.config.variables, <<>>)),
                Len(computed_vars) + 1)

\* walk_and_render of a template whose files are all rendered: every file
\* is its expression over the variables; a failing render is fatal
walk_and_render(resolved, variables) ==
  IF \A p \in DOMAIN resolved.files : TeraRender(resolved.files[p], variables).ok
  THEN [ok |-> TRUE,
        tree |-> [p \in DOMAIN resolved.files |->
                    << TeraRender(resolved.files[p], variables).text >>]]
  ELSE [ok |-> FALSE, tree |-> <<>>]

\* the steps of update_project that can return an error
UpdateSteps ==
  << "load_answers", "template_source", "fetch_new", "fetch_old",
     "render_old", "render_new", "three_way_merge", "apply_merge",
     "write_answers" >>

\* update_project returning Err at a step: what it leaves on disk
UpdateErr(step, files, project) ==
  [status |-> "err", step |-> step, files |-> files, project |-> project,
   old_snapshot |-> <<>>, new_snapshot |-> <<>>, results |-> <<>>,
   new_variables |-> <<>>, new_resolved |-> <<>>, source_kind |-> "",
   new_commit |-> ""]

\* the answers file as a failed std::fs::write leaves it: untouched when
\* the file could not be opened, truncated when the write itself failed
FailedWrite(files, name, truncated) ==
  IF truncated
  THEN Insert(files, name, [corrupt |-> TRUE, meta |-> <<>>, variables |-> <<>>])
  ELSE files

\* update_project returning Ok: what it leaves on disk and what it used
UpdateOk(files, project, old_tree, new_tree, merge_res, new_variables, new_resolved, source_kind) ==
  [status |-> "ok", step |-> "", files |-> files, project |-> project,
   old_snapshot |-> old_tree, new_snapshot |-> new_tree,
   results |-> merge_res, new_variables |-> new_variables,
   new_resolved |-> new_resolved, source_kind |-> source_kind,
   new_commit |-> new_resolved.commit]

\* steps 6 and 7 in the wrong order: the answers are written before
\* apply_merge runs
PersistThenApply(files, project, old_tree, new_tree, merge_res, written, new_variables, new_resolved, source_kind, fail, fail_k, fail_corrupt) ==
  IF fail = "write_answers"
    THEN UpdateErr("write_answers",
           FailedWrite(files, new_resolved.config.answers.file, fail_corrupt),
           project)
  ELSE IF /\ fail = "apply_merge"
          /\ fail_k \in 1..Len(merge_res)
          /\ merge_res[fail_k].action \notin {"KeepUser", "Unchanged"}
    THEN UpdateErr("apply_merge", written,
           ApplyLoop(project, new_tree, old_tree, merge_res, fail_k - 1))
  ELSE UpdateOk(written, apply_merge(project, new_tree, old_tree, merge_res),
                old_tree, new_tree, merge_res, new_variables, new_resolved,
                source_kind)

\* steps 6 and 7 of update_project: apply the merge, then write the answers
ApplyAndPersist(files, project, old_tree, new_tree, merge_res, written, new_variables, new_resolved, source_kind, fail, fail_k, fail_corrupt) ==
  IF /\ fail = "apply_merge"
     /\ fail_k \in 1..Len(merge_res)
     /\ merge_res[fail_k].action \notin {"KeepUser", "Unchanged"}
    THEN UpdateErr("apply_merge", files,
           ApplyLoop(project, new_tree, old_tree, merge_res, fail_k - 1))
  ELSE IF fail = "write_answers"
    THEN UpdateErr("write_answers",
           FailedWrite(files, new_resolved.config.answers.file, fail_corrupt),
           apply_merge(project, new_tree, old_tree, merge_res))
  ELSE UpdateOk(written, apply_merge(project, new_tree, old_tree, merge_res),
                old_tree, new_tree, merge_res, new_variables, new_resolved,
                source_kind)

\* update_project(project_path, options): load the answers, fetch and
\* render both snapshots, merge, apply, then persist the answers.  fail
\* names the step at which the environment fails (I/O), fail_k the entry of
\* apply_merge whose write fails, fail_corrupt whether a failed write of
\* the answers file leaves it truncated.
update_project(files, project, options, remote, local_dirs, fail, fail_k, fail_corrupt) ==
  LET saved == load_answers(files)
      template_arg ==
        IF options.template_source # None THEN options.template_source[1]
        ELSE saved.template_source
      new_ref == options.git_ref
      new_source == resolve_source(template_arg)
      new_resolved ==
        IF new_source.kind = "Local" THEN local_dirs[new_source.url]
        ELSE get_or_clone(remote, new_ref)
      old_resolved ==
        IF new_source.kind = "Local" THEN local_dirs[new_source.url]
        ELSE get_or_clone(remote, saved.template_ref)
      old_variables == build_variables_from_answers(saved.answers, old_resolved)
      old_render == walk_and_render(old_resolved, old_variables)
      new_variables == build_variables_from_answers(saved.answers, new_resolved)
      new_render == walk_and_render(new_resolved, new_variables)
      merge_res == three_way_merge(project, old_render.tree, new_render.tree)
      effective_ref == IF new_ref # None THEN new_ref ELSE saved.template_ref
      written ==
        write_answers_with_source(files, new_resolved.config, new_variables,
                                  Some(template_arg), effective_ref, None)
  IN  IF ~saved.ok THEN UpdateErr("load_answers", files, project)
      ELSE IF template_arg = ""
        THEN UpdateErr("template_source", files, project)
      ELSE IF new_source.kind = "Local" /\ new_source.url \notin DOMAIN local_dirs
        THEN UpdateErr("render_old", files, project)
      ELSE IF new_source.kind = "Git" /\ fail = "fetch_new"
        THEN UpdateErr("fetch_new", files, project)
      ELSE IF new_source.kind = "Git" /\ fail = "fetch_old"
        THEN UpdateErr("fetch_old", files, project)
      ELSE IF ~old_render.ok \/ fail = "render_old"
        THEN UpdateErr("render_old", files, project)
      ELSE IF ~new_render.ok \/ fail = "render_new"
        THEN UpdateErr("render_new", files, project)
      ELSE IF fail = "three_way_merge"
        THEN UpdateErr("three_way_merge", files, project)
      ELSE ApplyAndPersist(files, project, old_render.tree, new_render.tree,
                           merge_res, written, new_variables, new_resolved,
                           new_source.kind, fail, fail_k, fail_corrupt)

(* --------------------------- render::walker --------------------------- *)

\* the parts of a Tera template: literal text, a reference "{{ name }}", or
\* text the parser rejects
Lit(s) == <<"lit", s>>

Ref(n) == <<"ref", n>>

Bad(s) == <<"bad", s>>

RECURSIVE SourceText(_)
\* the text of a template as it stands in the template directory
SourceText(parts) ==
  IF parts = <<>> THEN ""
  ELSE (IF Head(parts)[1] = "ref" THEN "{{" \o Head(parts)[2] \o "}}"
        ELSE Head(parts)[2]) \o SourceText(Tail(parts))

RECURSIVE RenderedText(_, _)
\* the text tera.render gives for parts that parse and are defined
RenderedText(parts, context) ==
  IF parts = <<>> THEN ""
  ELSE (IF Head(parts)[1] = "ref" THEN TextOf(context[Head(parts)[2]])
        ELSE Head(parts)[2]) \o RenderedText(Tail(parts), context)

\* tera.add_raw_template(..).and_then(tera.render(..)): fails on text that
\* does not parse and on a reference that is not in the context
RenderTemplate(parts, context) ==
  IF \A i \in 1..Len(parts) :
       /\ parts[i][1] # "bad"
       /\ parts[i][1] = "ref" => parts[i][2] \in DOMAIN context
  THEN [ok |-> TRUE, text |-> RenderedText(parts, context)]
  ELSE [ok |-> FALSE, text |-> ""]

\* render_path_component: a path component rendered through Tera
render_path_component(component, context) == RenderTemplate(component, context)

\* str::ends_with
EndsWith(s, suffix) ==
  /\ Len(s) >= Len(suffix)
  /\ SubSeq(s, Len(s) - Len(suffix) + 1, Len(s)) = suffix

\* String::truncate(len - suffix.len())
Truncate(s, suffix) == SubSeq(s, 1, Len(s) - Len(suffix))

\* the body of the loop of render_relative_path after the component is
\* rendered: the suffix is stripped from the component that ends with it
StripSuffix(rendered_part, suffix) ==
  IF suffix # "" /\ EndsWith(rendered_part, suffix)
  THEN Truncate(rendered_part, suffix)
  ELSE rendered_part

RECURSIVE RenderComponents(_, _, _, _)
\* the loop of render_relative_path over rel_path.components()
RenderComponents(components, context, suffix, rendered) ==
  IF components = <<>> THEN [ok |-> TRUE, path |-> rendered]
  ELSE LET r == render_path_component(Head(components), context)
       IN  IF ~r.ok THEN [ok |-> FALSE, path |-> rendered]
           ELSE RenderComponents(Tail(components), context, suffix,
                  Append(rendered, StripSuffix(r.text, suffix)))

\* render_relative_path: every component rendered, or FilenameRenderError
render_relative_path(rel_path, context, suffix) ==
  RenderComponents(rel_path, context, suffix, <<>>)

RECURSIVE PathString(_)
\* Path::to_string_lossy: the components joined by "/"
PathString(components) ==
  IF components = <<>> THEN ""
  ELSE IF Len(components) = 1 THEN Head(components)
  ELSE Head(components) \o "/" \o PathString(Tail(components))

\* rel_str: the unrendered relative path of an entry
RelStr(rel_path) ==
  PathString([i \in 1..Len(rel_path) |-> SourceText(rel_path[i])])

\* a glob: a path without wildcard, or "*" followed by text
Glob(kind, text) == [kind |-> kind, text |-> text]

\* GlobSet::is_match: some glob of the set matches the whole path
is_match(glob_set, path) ==
  \E g \in glob_set :
    IF g.kind = "ends" THEN EndsWith(path, g.text) ELSE path = g.text

\* build_glob_set: the set of the globs of a pattern list
build_glob_set(patterns) == { patterns[i] : i \in 1..Len(patterns) }

\* evaluate_when_expr: "{% if when_expr %}"; an undefined name is falsy
evaluate_when_expr(when_expr, variables) ==
  when_expr \in DOMAIN variables /\ Truthy(variables[when_expr])

\* the patterns of all rules are folded in, whatever their predicate
evaluate_conditional_files_unconditional(files_config, variables) ==
  { files_config.conditional[i].pattern :
      i \in 1..Len(files_config.conditional) }

\* evaluate_conditional_files: the globs of the [[files.conditional]] rules
\* whose predicate is false
evaluate_conditional_files(files_config, variables) ==
  { files_config.conditional[i].pattern :
      i \in { j \in 1..Len(files_config.conditional) :
                ~evaluate_when_expr(files_config.conditional[j].when,
                                    variables) } }

\* a PlannedFile
PlannedFile(relative_path, content, is_copy) ==
  [relative_path |-> relative_path, content |-> content, is_copy |-> is_copy]

\* should_copy of plan_render: in the copy set, binary, or without the
\* suffix of a template that has one
ShouldCopy(resolved, entry, rendered_str) ==
  \/ is_match(build_glob_set(resolved.config.files.copy_without_render),
              rendered_str)
  \/ entry.binary
  \/ /\ resolved.config.template.templates_suffix # ""
     /\ ~EndsWith(RelStr(entry.path),
                  resolved.config.template.templates_suffix)

RECURSIVE PlanLoop(_, _, _, _)
\* the loop of plan_render over the entries WalkDir yields
PlanLoop(resolved, variables, entries, files) ==
  IF entries = <<>> THEN [ok |-> TRUE, error |-> "", files |-> files]
  ELSE
    LET entry == Head(entries)
        rest == Tail(entries)
        config == resolved.config
        rel_str == RelStr(entry.path)
        rendered_rel ==
          render_relative_path(entry.path, variables,
                               config.template.templates_suffix)
        rendered_str == PathString(rendered_rel.path)
        content == RenderTemplate(entry.content, variables)
    IN  IF is_match(build_glob_set(config.files.exclude), rel_str)
          THEN PlanLoop(resolved, variables, rest, files)
        ELSE IF ~rendered_rel.ok
          THEN [ok |-> FALSE, error |-> "FilenameRenderError", files |-> files]
        ELSE IF is_match(evaluate_conditional_files(config.files, variables),
                         rendered_str)
          THEN PlanLoop(resolved, variables, rest, files)
        ELSE IF entry.is_dir
          THEN PlanLoop(resolved, variables, rest, files)
        ELSE IF ShouldCopy(resolved, entry, rendered_str)
          THEN PlanLoop(resolved, variables, rest,
                 Append(files,
                        PlannedFile(rendered_str, SourceText(entry.content),
                                    TRUE)))
        ELSE IF content.ok
          THEN PlanLoop(resolved, variables, rest,
                 Append(files, PlannedFile(rendered_str, content.text, FALSE)))
        ELSE [ok |-> FALSE, error |-> "RenderError", files |-> files]

\* plan_render: the GenerationPlan of a template and its variables
plan_render(resolved, variables) ==
  PlanLoop(resolved, variables, resolved.content_dir, <<>>)

\* a file that exists keeps its bytes and the new ones are appended
AppendFile(tree, path, content) ==
  Insert(tree, path, IF path \in DOMAIN tree THEN tree[path] \o content
                     ELSE content)

\* std::fs::write(dest_path, content): the file is created or replaced
FsWrite(tree, path, content) == Insert(tree, path, content)

RECURSIVE execute_plan(_, _)
\* execute_plan: every planned file written under output_dir, in order
execute_plan(files, output_dir) ==
  IF files = <<>> THEN output_dir
  ELSE execute_plan(Tail(files),
                    FsWrite(output_dir, Head(files).relative_path,
                            Head(files).content))

\* should_copy of the walk_and_render that knows render_all: the suffix
\* gates only when render_all is unset
ShouldCopyGated(resolved, entry, rendered_str) ==
  \/ is_match(build_glob_set(resolved.config.files.copy_without_render),
              rendered_str)
  \/ entry.binary
  \/ /\ ~resolved.render_all
     /\ resolved.config.template.templates_suffix # ""
     /\ ~EndsWith(RelStr(entry.path),
                  resolved.config.template.templates_suffix)

\* a render failure is fatal whatever render_all says
RenderFailedAlwaysFatal(resolved, entry, rendered_str, output_dir, copied) ==
  [fatal |-> TRUE, output_dir |-> output_dir, copied |-> copied]

\* the Err arms of the match on render_result: under render_all the source
\* content is written verbatim and the file counts as copied, else the
\* error is returned
RenderFailed(resolved, entry, rendered_str, output_dir, copied) ==
  IF resolved.render_all
  THEN [fatal |-> FALSE,
        output_dir |-> FsWrite(output_dir, rendered_str,
                               SourceText(entry.content)),
        copied |-> Append(copied, rendered_str)]
  ELSE [fatal |-> TRUE, output_dir |-> output_dir, copied |-> copied]

RECURSIVE WalkLoop(_, _, _, _, _, _)
\* the loop of the walk_and_render that writes as it walks
WalkLoop(resolved, variables, entries, output_dir, created, copied) ==
  IF entries = <<>>
  THEN [ok |-> TRUE, error |-> "", output_dir |-> output_dir,
        files_created |-> created, files_copied |-> copied]
  ELSE
    LET entry == Head(entries)
        rest == Tail(entries)
        config == resolved.config
        rel_str == RelStr(entry.path)
        rendered_rel ==
          render_relative_path(entry.path, variables,
                               config.template.templates_suffix)
        rendered_str == PathString(rendered_rel.path)
        content == RenderTemplate(entry.content, variables)
        failed == RenderFailed(resolved, entry, rendered_str, output_dir,
                               copied)
    IN  IF is_match(build_glob_set(config.files.exclude), rel_str)
          THEN WalkLoop(resolved, variables, rest, output_dir, created, copied)
        ELSE IF ~rendered_rel.ok
          THEN [ok |-> FALSE, error |-> "FilenameRenderError",
                output_dir |-> output_dir,
                files_created |-> created, files_copied |-> copied]
        ELSE IF is_match(evaluate_conditional_files(config.files, variables),
                         rendered_str)
          THEN WalkLoop(resolved, variables, rest, output_dir, created, copied)
        ELSE IF entry.is_dir
          THEN WalkLoop(resolved, variables, rest, output_dir, created, copied)
        ELSE IF ShouldCopyGated(resolved, entry, rendered_str)
          THEN WalkLoop(resolved, variables, rest,
                        FsWrite(output_dir, rendered_str,
                                SourceText(entry.content)),
                        created, Append(copied, rendered_str))
        ELSE IF content.ok
          THEN WalkLoop(resolved, variables, rest,
                        FsWrite(output_dir, rendered_str, content.text),
                        Append(created, rendered_str), copied)
        ELSE IF failed.fatal
          THEN [ok |-> FALSE, error |-> "RenderError",
                output_dir |-> output_dir,
                files_created |-> created, files_copied |-> copied]
        ELSE WalkLoop(resolved, variables, rest, failed.output_dir, created,
                      failed.copied)

\* walk_and_render with the render_all flag: the template rendered straight
\* into output_dir
walk_and_render_all(resolved, output_dir, variables) ==
  WalkLoop(resolved, variables, resolved.content_dir, output_dir, <<>>, <<>>)

(* ----------------------- config::schema validate ---------------------- *)

\* a VariableConfig as validate reads it: its type, its choices, whether it
\* is computed and whether it declares a prompt
ChoiceVariable(name, var_type, choices, computed, prompt) ==
  [name |-> name, var_type |-> var_type, default |-> None, when |-> None,
   secret |-> FALSE, choices |-> choices, computed |-> computed,
   prompt |-> prompt]

\* the first check of validate: a choice kind without a choices key
MissingChoices(var) ==
  var.var_type \in {"select", "multiselect"} /\ var.choices = None

\* the second check of validate: a computed variable with a prompt
ComputedWithPrompt(var) == var.computed # None /\ var.prompt # None

RECURSIVE ValidateLoop(_)
\* the loop of validate over the variables, in the order of their names:
\* the first variable that fails a check is the error returned
ValidateLoop(variables) ==
  IF variables = <<>> THEN [ok |-> TRUE, name |-> "", reason |-> ""]
  ELSE LET var == Head(variables)
       IN  IF MissingChoices(var)
             THEN [ok |-> FALSE, name |-> var.name,
                   reason |-> "select/multiselect variables must have 'choices' defined"]
           ELSE IF ComputedWithPrompt(var)
             THEN [ok |-> FALSE, name |-> var.name,
                   reason |-> "computed variables should not have a 'prompt' field"]
           ELSE ValidateLoop(Tail(variables))

\* TemplateConfig::validate
validate(config) == ValidateLoop(config.variables)

(* --------------------------- template::cache -------------------------- *)

\* CACHE_METADATA_FILE
CacheMetadataFile == ".diecut-cache.toml"

\* the entries of a cloned template
ClonedFiles == { "diecut.toml", "template" }

\* a complete cache entry: the cloned template and its metadata file
CompleteEntry == ClonedFiles \cup {CacheMetadataFile}

\* cached_path.exists()
PathExists(cache) == cache # None

\* cached_path.join(CACHE_METADATA_FILE).exists()
MetadataExists(cache) == cache # None /\ CacheMetadataFile \in cache[1]

\* the positions between the re-check that found no entry and the return:
\* the process is cloning or placing the clone at cached_path
Populating ==
  { "clone", "write_metadata", "stale_exists", "remove_dir_all", "rename",
    "create_dir_all", "copy" }

\* a lock that every caller gets at once
LockAvailableAlways(holder) == TRUE

\* lock_exclusive() returns only while no other process holds the lock
LockAvailable(holder) == holder = 0

\* std::fs::copy of one entry into the directory at cached_path
CopyInto(cache, file) == Some(cache[1] \cup {file})

(* ------------------------------- compose ------------------------------ *)

\* chain.contains(name) without the comparison: no name is ever found
ContainsNever(chain, name) == FALSE

\* chain.contains(name)
Contains(chain, name) == \E i \in 1..Len(chain) : chain[i] = name

\* overlay_dir(src, dst): every file of src is copied over dst
overlay_dir(src, dst) ==
  [f \in DOMAIN dst \cup DOMAIN src |-> IF f \in DOMAIN src THEN src[f] ELSE dst[f]]

\* merge_variables(source, target): entry(name).or_insert_with, so the
\* variables the target already has win
merge_variables(source, target) ==
  [n \in DOMAIN target \cup DOMAIN source |->
     IF n \in DOMAIN target THEN target[n] ELSE source[n]]

\* a call of resolve_extends in progress: its source_str and its position
Frame(source_str, at) == [source_str |-> source_str, at |-> at]

\* what compose_template returned
Composed(ok, error, chain, dir, config) ==
  [ok |-> ok, error |-> error, chain |-> chain, dir |-> dir,
   config |-> config]

(* ------------------------- state of one merge ------------------------- *)

VARIABLES
  project_dir,       \* the user's project tree
  old_snapshot_dir,  \* the template rendered at the old ref
  new_snapshot_dir,  \* the template rendered at the new ref
  merge_results,     \* the Vec<FileMergeResult> three_way_merge returned
  project_before,    \* the project tree as it was before apply_merge
  pc,                \* position of the caller
  cv_declared,       \* the [variables] tables of diecut.toml, as written
  cv_config,         \* the TemplateConfig given to collect_variables
  cv_options,        \* the PromptOptions given to collect_variables
  cv_result,         \* what collect_variables returned
  answers_files,     \* the answers files of the project, by file name
  answers_before,    \* the answers files as they were before the update
  remote_repo,       \* the template repository: ref -> template version
  upd_options,       \* the UpdateOptions given to update_project
  upd_result,        \* what update_project returned and used
  upd_run,           \* the number of runs of update_project that returned Ok
  rd_resolved,       \* the ResolvedTemplate being materialized
  rd_variables,      \* the variables it is rendered with
  rd_output,         \* the output directory: path -> content
  rd_runs,           \* what each materialization returned and left behind
  aw_config,         \* the TemplateConfig given to write_answers
  aw_source,         \* the SourceInfo given to write_answers
  aw_variables,      \* per run, the variables given to write_answers
  aw_files,          \* per run, the files of the project directory
  aw_loaded,         \* per run, what load_answers returned, if called
  aw_at,             \* per run, the position of the caller
  vd_config,         \* the TemplateConfig given to validate
  vd_result,         \* what validate returned, if called
  gc_cache,          \* the directory at cached_path: absent, or its files
  gc_cross_fs,       \* the temporary directory is on another filesystem
  gc_lock,           \* the process holding the lock of the key, or 0
  gc_pc,             \* per process, its position in get_or_clone
  gc_tmp,            \* per process, the files of its clone's directory
  gc_todo,           \* per process, the files copy_dir_all has yet to copy
  gc_seen,           \* per process, how the entry was when it got the lock
  gc_ret,            \* per process, what get_or_clone returned
  ce_templates,      \* the templates on disk, by source string
  ce_root,           \* the source of the template being composed
  ce_chain,          \* the chain of template names resolve_extends keeps
  ce_stack,          \* the sources of the calls of resolve_extends in progress
  ce_composed,       \* the composed template directory: file -> content
  ce_merged,         \* the variables of merged_config: name -> owner
  ce_result          \* what compose_template returned, if it has

mergeVars ==
  << project_dir, old_snapshot_dir, new_snapshot_dir, merge_results,
     project_before >>

cvVars == << cv_declared, cv_config, cv_options, cv_result >>

updVars ==
  << answers_files, answers_before, remote_repo, upd_options, upd_result,
     upd_run >>

rdVars == << rd_resolved, rd_variables, rd_output, rd_runs >>

awVars ==
  << aw_config, aw_source, aw_variables, aw_files, aw_loaded, aw_at >>

vdVars == << vd_config, vd_result >>

gcVars ==
  << gc_cache, gc_cross_fs, gc_lock, gc_pc, gc_tmp, gc_todo, gc_seen, gc_ret >>

ceVars ==
  << ce_templates, ce_root, ce_chain, ce_stack, ce_composed, ce_merged,
     ce_result >>

\* the state of validate, of the template cache and of compose_template
restVars == << vdVars, gcVars, ceVars >>

vars == << mergeVars, pc, cvVars, updVars, rdVars, awVars, restVars >>

\* validate has not been called
VdIdle ==
  /\ vd_config = <<>>
  /\ vd_result = <<>>

\* no process is in get_or_clone
GcIdle ==
  /\ gc_cache = <<>>
  /\ gc_cross_fs = FALSE
  /\ gc_lock = 0
  /\ gc_pc = <<>>
  /\ gc_tmp = <<>>
  /\ gc_todo = <<>>
  /\ gc_seen = <<>>
  /\ gc_ret = <<>>

\* no template is being composed
CeIdle ==
  /\ ce_templates = <<>>
  /\ ce_root = ""
  /\ ce_chain = <<>>
  /\ ce_stack = <<>>
  /\ ce_composed = <<>>
  /\ ce_merged = <<>>
  /\ ce_result = <<>>

\* neither validate, nor the cache, nor compose_template is in use
RestIdle == VdIdle /\ GcIdle /\ CeIdle

\* no merge is in progress
MergeIdle ==
  /\ project_dir = <<>>
  /\ old_snapshot_dir = <<>>
  /\ new_snapshot_dir = <<>>
  /\ merge_results = <<>>
  /\ project_before = <<>>

\* no answers are being written
AwIdle ==
  /\ aw_config = <<>>
  /\ aw_source = <<>>
  /\ aw_variables = <<>>
  /\ aw_files = <<>>
  /\ aw_loaded = <<>>
  /\ aw_at = <<>>

\* nothing is being materialized
RdIdle ==
  /\ rd_resolved = <<>>
  /\ rd_variables = <<>>
  /\ rd_output = <<>>
  /\ rd_runs = <<>>

\* collect_variables has not been called
CvIdle ==
  /\ cv_declared = <<>>
  /\ cv_config = [variables |-> <<>>]
  /\ cv_options = [data_overrides |-> <<>>, use_defaults |-> TRUE]
  /\ cv_result = [ok |-> TRUE, values |-> <<>>, rounds |-> 0, error |-> None]

\* update_project has not been called
UpdIdle ==
  /\ answers_files = <<>>
  /\ answers_before = <<>>
  /\ remote_repo = <<>>
  /\ upd_options = [template_source |-> None, git_ref |-> None]
  /\ upd_result = UpdateErr("", <<>>, <<>>)
  /\ upd_run = 0

\* the three trees of a merge: at most MaxFiles paths are populated
InitMerge ==
  /\ \E S \in SUBSET Paths :
       /\ Cardinality(S) <= MaxFiles
       /\ project_dir \in TreesOver(S)
       /\ old_snapshot_dir \in TreesOver(S)
       /\ new_snapshot_dir \in TreesOver(S)
  /\ merge_results = <<>>
  /\ project_before = project_dir
  /\ pc = "start"
  /\ CvIdle
  /\ UpdIdle
  /\ RdIdle
  /\ AwIdle
  /\ RestIdle

\* a three_way_merge that applies what it classified before it returns
ThreeWayMergeApplies ==
  /\ pc = "start"
  /\ merge_results' =
       three_way_merge(project_dir, old_snapshot_dir, new_snapshot_dir)
  /\ project_dir' =
       apply_merge(project_dir, new_snapshot_dir, old_snapshot_dir,
                   merge_results')
  /\ pc' = "merged"
  /\ UNCHANGED << old_snapshot_dir, new_snapshot_dir, project_before,
                  cvVars, awVars, rdVars, updVars, restVars >>

\* three_way_merge returns Ok(results)
ThreeWayMerge ==
  /\ pc = "start"
  /\ merge_results' =
       three_way_merge(project_dir, old_snapshot_dir, new_snapshot_dir)
  /\ pc' = "merged"
  /\ UNCHANGED << project_dir, old_snapshot_dir, new_snapshot_dir,
                  project_before, cvVars, awVars, rdVars, updVars, restVars >>

\* three_way_merge returns Err: reading a compared file failed
ThreeWayMergeErr ==
  /\ pc = "start"
  /\ collect_files(project_dir) \cup collect_files(old_snapshot_dir)
       \cup collect_files(new_snapshot_dir) # {}
  /\ pc' = "merge_failed"
  /\ UNCHANGED << mergeVars, cvVars, awVars, rdVars, updVars, restVars >>

\* apply_merge returns Ok(())
ApplyMerge ==
  /\ pc = "merged"
  /\ project_dir' =
       apply_merge(project_dir, new_snapshot_dir, old_snapshot_dir,
                   merge_results)
  /\ pc' = "applied"
  /\ UNCHANGED << old_snapshot_dir, new_snapshot_dir, merge_results,
                  project_before, cvVars, awVars, rdVars, updVars, restVars >>

\* apply_merge returns Err: the write of entry k failed, after k - 1 entries
ApplyMergeErr ==
  /\ pc = "merged"
  /\ \E k \in 1..Len(merge_results) :
       /\ merge_results[k].action \notin {"KeepUser", "Unchanged"}
       /\ project_dir' =
            ApplyLoop(project_dir, new_snapshot_dir, old_snapshot_dir,
                      merge_results, k - 1)
  /\ pc' = "apply_failed"
  /\ UNCHANGED << old_snapshot_dir, new_snapshot_dir, merge_results,
                  project_before, cvVars, awVars, rdVars, updVars, restVars >>

NextMerge == ThreeWayMerge \/ ThreeWayMergeErr \/ ApplyMerge \/ ApplyMergeErr

SpecMerge == InitMerge /\ [][NextMerge]_vars

(* -------------------- state of one collect_variables ------------------ *)

\* the names a computed expression of variable i may reference: the
\* prompted variable and the other computed variables
RefNames(i, n) == {"n1"} \cup { ComputedName(j) : j \in (1..n) \ {i} }

\* the reference lists over a set of names: up to MaxRefs distinct names
RefSeqs(S) ==
  { refs \in UNION { [1..k -> S] : k \in 0..MaxRefs } :
      \A a, b \in 1..Len(refs) : a # b => refs[a] # refs[b] }

\* the declaration of a prompted variable
Variable(name, var_type, default, when) ==
  [name |-> name, var_type |-> var_type, default |-> default, when |-> when,
   computed |-> None, secret |-> FALSE]

\* the declaration of the prompted variable n1
PromptedVar == Variable("n1", "string", Some(<<"String", "x">>), None)

\* the declaration of the computed variable i with the given references
ComputedVar(i, refs) ==
  [name |-> ComputedName(i), var_type |-> "string", default |-> None,
   when |-> None, secret |-> FALSE,
   computed |-> Some(Expr(ComputedName(i) \o ":", refs))]

\* diecut.toml declares n1, shown or hidden behind a predicate over the
\* undeclared name u, and n computed variables, in ascending or in
\* descending order of their names
InitComputed ==
  /\ \E n \in 1..MaxComputed :
       \E refs \in [1..n -> RefSeqs(RefNames(0, MaxComputed))] :
         \E descending \in BOOLEAN, when \in {None, Some("u")} :
           /\ \A i \in 1..n :
                \A k \in 1..Len(refs[i]) : refs[i][k] \in RefNames(i, n)
           /\ cv_declared =
                <<[PromptedVar EXCEPT !.when = when]>> \o
                [k \in 1..n |->
                   LET i == IF descending THEN n + 1 - k ELSE k
                   IN  ComputedVar(i, refs[i])]
  /\ cv_options \in
       { [data_overrides |-> o, use_defaults |-> d] :
           o \in { <<>>, [x \in {"n1"} |-> "y"] }, d \in BOOLEAN }

\* the kinds a variable can declare
VariableType == {"string", "bool", "int", "float", "select", "multiselect"}

\* the defaults the variable a can declare: no default, or a TOML value
DefaultsOfA ==
  { None, Some(<<"String", "x">>), Some(<<"String", "7">>),
    Some(<<"Boolean", "false">>), Some(<<"Integer", "7">>),
    Some(<<"Float", "nan">>), Some(<<"Array", "[x, y]">>) }

\* the defaults the variable b can declare
DefaultsOfB ==
  { None, Some(<<"String", "x">>), Some(<<"Boolean", "false">>) }

\* the visibility predicates: none, or a reference to a, to b or to the
\* undeclared name u
Whens == { None, Some("a"), Some("b"), Some("u") }

\* the --data overrides given on the command line
Overrides ==
  { <<>>, [x \in {"a"} |-> "7"], [x \in {"a"} |-> "x,y"],
    [x \in {"b"} |-> "true"] }

\* diecut.toml declares the prompted variables a and b, in either order
InitPrompted ==
  /\ \E ta \in VariableType, tb \in {"string", "bool"} :
       \E da \in DefaultsOfA, db \in DefaultsOfB :
         \E wa \in Whens, wb \in Whens :
           \E b_first \in BOOLEAN :
             LET a == Variable("a", ta, da, wa)
                 b == Variable("b", tb, db, wb)
             IN  cv_declared = IF b_first THEN <<b, a>> ELSE <<a, b>>
  /\ cv_options \in
       { [data_overrides |-> o, use_defaults |-> d] :
           o \in Overrides, d \in BOOLEAN }

\* load_config has parsed diecut.toml into the TemplateConfig
InitVars ==
  /\ InitComputed \/ InitPrompted
  /\ cv_config = [variables |-> BTreeMap(cv_declared)]
  /\ cv_result = [ok |-> TRUE, values |-> <<>>, rounds |-> 0, error |-> None]
  /\ pc = "start"
  /\ MergeIdle
  /\ UpdIdle
  /\ RdIdle
  /\ AwIdle
  /\ RestIdle

\* the names of the variables of a config that are not computed
PromptedNamesOf(config) ==
  { config.variables[i].name :
      i \in { j \in 1..Len(config.variables) :
                config.variables[j].computed = None } }

\* collect_variables(config, options) returns; the user answers every
\* prompt, typing "p" where text is asked, or cancels
CollectVariables ==
  /\ pc = "start"
  /\ \E input \in { None, Some("p") } :
       cv_result' =
         collect_variables(cv_config, cv_options,
                           [x \in PromptedNamesOf(cv_config) |-> input])
  /\ pc' = "collected"
  /\ UNCHANGED << mergeVars, cv_declared, cv_config, cv_options, updVars,
                  rdVars, awVars, restVars >>

NextVars == CollectVariables

SpecVars == InitVars /\ [][NextVars]_vars

(* ----------------------- state of one update -------------------------- *)

\* the variables of a template version: the prompted n1 and the computed
\* c1, whose expression is lit followed by {{ n1 }}
TemplateVariables(lit) ==
  << PromptedVar,
     [name |-> "c1", var_type |-> "string", default |-> None, when |-> None,
      secret |-> FALSE, computed |-> Some(Expr(lit, <<"n1">>))] >>

\* a resolved template version: its commit, its config and its files
TemplateVersion(commit, version, lit, files) ==
  [commit |-> commit,
   config |-> [template |-> [name |-> "tpl", version |-> Some(version)],
               variables |-> TemplateVariables(lit),
               answers |-> [file |-> AnswersFileName]],
   files |-> files]

\* the template as it was when the project was generated
T1 ==
  TemplateVersion("sha1", "1", "c1:",
                  [p \in {<<"a">>} |-> Expr("A1:", <<"c1">>)])

\* a later version: c1 has a new expression, a changed and a new file
T2 ==
  TemplateVersion("sha2", "2", "c1v2:",
                  [p \in {<<"a">>, <<"a", "rej">>} |->
                     IF p = <<"a">> THEN Expr("A2:", <<"c1">>)
                     ELSE Expr("R2:", <<"n1">>)])

\* the local template directories: "tpl" holds the template
LocalDirs(template) == [d \in {"tpl"} |-> template]

\* the variables a generation from T1 collected, n1 overridden or defaulted
GeneratedVariables(overrides) ==
  collect_variables(T1.config,
                    [data_overrides |-> overrides, use_defaults |-> TRUE],
                    [x \in {"n1"} |-> None]).values

\* the project as generate leaves it: the rendered tree
GeneratedTree(overrides) ==
  walk_and_render(T1, GeneratedVariables(overrides)).tree

\* the user's later changes to a generated tree: none, an edit or an added
\* file at some path, or a deleted file
UserTrees(tree) ==
  {tree} \cup { WriteFile(tree, p, FileContent(1)) : p \in Paths }
    \cup { [q \in DOMAIN tree \ {p} |-> tree[q]] : p \in DOMAIN tree }

\* what generate recorded about the source: nothing for a local template,
\* the URL, the ref and the commit for a Git one
SourceInfos ==
  { [url |-> None, git_ref |-> None, commit_sha |-> None],
    [url |-> Some(GitUrl), git_ref |-> None, commit_sha |-> Some(T1.commit)],
    [url |-> Some(GitUrl), git_ref |-> Some("v1"),
     commit_sha |-> Some(T1.commit)] }

\* a project generated from T1 and then changed by the user, with or
\* without its answers file, and a repository whose default branch is at T1
\* or at T2
InitUpdate ==
  /\ \E overrides \in { <<>>, [x \in {"n1"} |-> "y"] } :
       /\ project_dir \in UserTrees(GeneratedTree(overrides))
       /\ \/ answers_files = <<>>
          \/ \E info \in SourceInfos :
               answers_files =
                 write_answers_with_source(<<>>, T1.config,
                   GeneratedVariables(overrides), info.url, info.git_ref,
                   info.commit_sha)
  /\ answers_before = answers_files
  /\ project_before = project_dir
  /\ remote_repo \in
       { [r \in {"v1", "v2", "HEAD"} |->
            IF r = "v1" THEN T1 ELSE IF r = "v2" THEN T2 ELSE head] :
         head \in {T1, T2} }
  /\ upd_options \in
       { [template_source |-> src, git_ref |-> ref] :
           src \in {None, Some("gh:u/t")},
           ref \in {None, Some("v1"), Some("v2")} }
  /\ upd_result = UpdateErr("", <<>>, <<>>)
  /\ upd_run = 0
  /\ old_snapshot_dir = <<>>
  /\ new_snapshot_dir = <<>>
  /\ merge_results = <<>>
  /\ pc = "start"
  /\ CvIdle
  /\ RdIdle
  /\ AwIdle
  /\ RestIdle

\* the environment failures of one run of update_project
UpdateFailures ==
  { "none", "fetch_new", "fetch_old", "render_old", "render_new",
    "three_way_merge", "apply_merge", "write_answers" }

\* one call of update_project with the given environment failure
UpdateCall(fail, fail_k, fail_corrupt) ==
  update_project(answers_files, project_dir, upd_options, remote_repo,
                 LocalDirs(remote_repo["HEAD"]), fail, fail_k, fail_corrupt)

\* update_project may be called: on the generated project, or again right
\* after a run that returned Ok
CanUpdate == pc = "start" \/ (pc = "updated" /\ upd_run < MaxUpdates)

\* update_project returns Ok(report)
UpdateProject ==
  /\ CanUpdate
  /\ LET out == UpdateCall("none", 1, FALSE)
     IN  /\ out.status = "ok"
         /\ upd_result' = out
         /\ answers_files' = out.files
         /\ project_dir' = out.project
         /\ old_snapshot_dir' = out.old_snapshot
         /\ new_snapshot_dir' = out.new_snapshot
         /\ merge_results' = out.results
  /\ answers_before' = answers_files
  /\ project_before' = project_dir
  /\ upd_run' = upd_run + 1
  /\ pc' = "updated"
  /\ UNCHANGED << cvVars, awVars, rdVars, remote_repo, upd_options, restVars >>

\* update_project returns Err: a step failed
UpdateProjectErr ==
  /\ CanUpdate
  /\ \E fail \in UpdateFailures, fail_k \in 1..Cardinality(Paths),
        fail_corrupt \in BOOLEAN :
       LET out == UpdateCall(fail, fail_k, fail_corrupt)
       IN  /\ out.status = "err"
           /\ upd_result' = out
           /\ answers_files' = out.files
           /\ project_dir' = out.project
  /\ answers_before' = answers_files
  /\ project_before' = project_dir
  /\ pc' = "update_failed"
  /\ UNCHANGED << old_snapshot_dir, new_snapshot_dir, merge_results,
                  cvVars, awVars, rdVars, remote_repo, upd_options, upd_run, restVars >>

NextUpdate == UpdateProject \/ UpdateProjectErr

SpecUpdate == InitUpdate /\ [][NextUpdate]_vars

(* -------------------- state of one materialization -------------------- *)

\* the directories a template file can lie in: the root, a directory whose
\* name ends with the suffix, a directory named by a variable
DirChoices == { <<>>, << <<Lit("d.tera")>> >>, << <<Ref("name")>> >> }

\* the names a template file can have
FileNames ==
  { <<Lit("x.txt")>>, <<Ref("name"), Lit(".txt")>>, <<Lit("f.tera")>> }

\* the contents a template file can have: a template over name, text Tera
\* does not parse, or binary data
FileContents ==
  { [parts |-> <<Lit("v="), Ref("name")>>, binary |-> FALSE],
    [parts |-> <<Bad("{% bad"), Ref("name")>>, binary |-> FALSE],
    [parts |-> <<Lit("bin")>>, binary |-> TRUE] }

\* the files a template can hold
TemplateFiles ==
  { [path |-> d \o <<n>>, is_dir |-> FALSE, content |-> c.parts,
     binary |-> c.binary] :
      d \in DirChoices, n \in FileNames, c \in FileContents }

\* the entry of a directory
DirEntry(path) ==
  [path |-> path, is_dir |-> TRUE, content |-> <<>>, binary |-> FALSE]

RECURSIVE WalkDir(_, _)
\* WalkDir::new(content_dir).min_depth(1): every file in turn, its
\* directory before it unless the directory was yielded already
WalkDir(files, seen) ==
  IF files = <<>> THEN <<>>
  ELSE LET f == Head(files)
           dir == SubSeq(f.path, 1, Len(f.path) - 1)
       IN  IF dir = <<>> \/ dir \in seen
           THEN <<f>> \o WalkDir(Tail(files), seen)
           ELSE <<DirEntry(dir), f>> \o WalkDir(Tail(files), seen \cup {dir})

\* the static exclude lists of [files]
ExcludeLists == { <<>>, <<Glob("lit", "x.txt")>>, <<Glob("ends", ".tera")>> }

\* the [[files.conditional]] rule lists: no rule, or one rule on flag
ConditionalLists ==
  { <<>>,
    <<[pattern |-> Glob("lit", "x.txt"), when |-> "flag"]>>,
    <<[pattern |-> Glob("ends", ".tera"), when |-> "flag"]>> }

\* the copy_without_render lists of [files]
CopyLists == { <<>>, <<Glob("ends", ".txt")>> }

\* a template of up to MaxEntries files with distinct paths, its config, the
\* variables name and flag, and an empty output directory
InitRender ==
  /\ \E n \in 1..MaxEntries :
       \E files \in [1..n -> TemplateFiles] :
         \E suffix \in {"", ".tera"}, render_all \in BOOLEAN :
           \E exclude \in ExcludeLists, conditional \in ConditionalLists :
             \E copy_without_render \in CopyLists :
               /\ \A i, j \in 1..n : i # j => files[i].path # files[j].path
               /\ rd_resolved =
                    [config |->
                       [template |-> [templates_suffix |-> suffix],
                        files |-> [exclude |-> exclude,
                                   copy_without_render |-> copy_without_render,
                                   conditional |-> conditional]],
                     content_dir |-> WalkDir(files, {}),
                     render_all |-> render_all]
  /\ rd_variables \in
       { [v \in {"name", "flag"} |->
            IF v = "name" THEN Val("string", "x") ELSE Val("bool", flag)] :
           flag \in {"true", "false"} }
  /\ rd_output = <<>>
  /\ rd_runs = <<>>
  /\ pc = "render"
  /\ MergeIdle
  /\ CvIdle
  /\ UpdIdle
  /\ AwIdle
  /\ RestIdle

\* what a materialization returned and the output directory it left
Run(kind, ok, error, files, output) ==
  [kind |-> kind, ok |-> ok, error |-> error, files |-> files,
   output |-> output]

\* plan_render, then execute_plan on its plan when it returned one
Materialize ==
  /\ pc = "render"
  /\ Len(rd_runs) < MaxRuns
  /\ LET plan == plan_render(rd_resolved, rd_variables)
         output == IF plan.ok THEN execute_plan(plan.files, rd_output)
                   ELSE rd_output
     IN  /\ rd_output' = output
         /\ rd_runs' = Append(rd_runs, Run("plan", plan.ok, plan.error,
                                           plan.files, output))
  /\ UNCHANGED << mergeVars, pc, cvVars, awVars, updVars, rd_resolved, rd_variables, restVars >>

\* the walk_and_render that knows render_all returns
WalkAndRender ==
  /\ pc = "render"
  /\ Len(rd_runs) < MaxRuns
  /\ LET r == walk_and_render_all(rd_resolved, rd_output, rd_variables)
     IN  /\ rd_output' = r.output_dir
         /\ rd_runs' = Append(rd_runs, Run("walk", r.ok, r.error, <<>>,
                                           r.output_dir))
  /\ UNCHANGED << mergeVars, pc, cvVars, awVars, updVars, rd_resolved, rd_variables, restVars >>

NextRender == Materialize \/ WalkAndRender

SpecRender == InitRender /\ [][NextRender]_vars

(* ------------------- state of one answers round trip ------------------- *)

\* the two runs that are compared: they differ only in secret values
Runs == {"first", "second"}

\* the values the variable a can hold
ValuesOfA ==
  { Val("string", "x"), Val("bool", "true"), Val("int", "7"),
    Val("float", "1.5"), Val("array", "[x, y]"), Val("null", "") }

\* the answers file a generation into the same directory left before
StaleAnswers ==
  [corrupt |-> FALSE,
   meta |-> [k \in {"template", "diecut_version"} |->
               IF k = "template" THEN "old" ELSE DiecutVersion],
   variables |-> <<>>]

\* a config that declares a and b, each secret or not, and names its answers
\* file; the variables of the first run, with or without a; those of the
\* second run, where every secret variable holds another value
InitAnswers ==
  /\ \E version \in {None, Some("1")}, file \in {AnswersFileName, "custom.toml"} :
       \E secret \in [{"a", "b"} -> BOOLEAN] :
         aw_config =
           [template |-> [name |-> "tpl", version |-> version],
            variables |->
              <<[Variable("a", "string", None, None)
                   EXCEPT !.secret = secret["a"]],
                [Variable("b", "string", None, None)
                   EXCEPT !.secret = secret["b"]]>>,
            answers |-> [file |-> file]]
  /\ aw_source \in SourceInfos
  /\ \E names \in { {"a", "b"}, {"b"} }, va \in ValuesOfA :
       \E vb \in { Val("string", "y"), Val("string", "") } :
         aw_variables =
           [r \in Runs |->
              [n \in names |->
                 IF r = "second" /\ IsSecret(aw_config, n)
                   THEN Val("string", "other")
                 ELSE IF n = "a" THEN va ELSE vb]]
  /\ \E files \in { <<>>, [f \in {AnswersFileName} |-> StaleAnswers] } :
       aw_files = [r \in Runs |-> files]
  /\ aw_loaded = [r \in Runs |-> None]
  /\ aw_at = [r \in Runs |-> "generated"]
  /\ pc = "answers"
  /\ MergeIdle
  /\ CvIdle
  /\ UpdIdle
  /\ RdIdle
  /\ RestIdle

\* write_answers at the end of a generation returns Ok(())
WriteAnswers ==
  \E r \in Runs :
    /\ aw_at[r] = "generated"
    /\ aw_files' =
         [aw_files EXCEPT
            ![r] = write_answers(@, aw_config, aw_variables[r], aw_source)]
    /\ aw_at' = [aw_at EXCEPT ![r] = "written"]
    /\ UNCHANGED << mergeVars, pc, cvVars, updVars, rdVars, aw_config, aw_source,
                    aw_variables, aw_loaded, restVars >>

\* load_answers at the start of the next update returns
LoadAnswers ==
  \E r \in Runs :
    /\ aw_at[r] = "written"
    /\ aw_loaded' = [aw_loaded EXCEPT ![r] = Some(load_answers(aw_files[r]))]
    /\ aw_at' = [aw_at EXCEPT ![r] = "loaded"]
    /\ UNCHANGED << mergeVars, pc, cvVars, updVars, rdVars, aw_config, aw_source,
                    aw_variables, aw_files, restVars >>

NextAnswers == WriteAnswers \/ LoadAnswers

SpecAnswers == InitAnswers /\ [][NextAnswers]_vars

(* ----------------------- state of one validate ------------------------ *)

\* the choices keys a variable may carry: none, an empty list, a list
ChoiceLists == { None, Some(<<>>), Some(<<"x", "y">>) }

\* the variables named name that a diecut.toml may declare
DeclarableVariables(name) ==
  { ChoiceVariable(name, t, ch, c, pr) :
      t \in VariableType, ch \in ChoiceLists,
      c \in {None, Some(Expr("k", <<>>))}, pr \in {None, Some("Pick one")} }

\* a parsed diecut.toml declaring a, or a and b
InitValidate ==
  /\ \/ \E va \in DeclarableVariables("a") :
          vd_config = [variables |-> <<va>>]
     \/ \E va \in DeclarableVariables("a"), vb \in DeclarableVariables("b") :
          vd_config = [variables |-> <<va, vb>>]
  /\ vd_result = None
  /\ pc = "validate"
  /\ MergeIdle
  /\ CvIdle
  /\ UpdIdle
  /\ RdIdle
  /\ AwIdle
  /\ GcIdle
  /\ CeIdle

\* validate returns
Validate ==
  /\ pc = "validate"
  /\ vd_result = None
  /\ vd_result' = Some(validate(vd_config))
  /\ UNCHANGED << mergeVars, pc, cvVars, updVars, rdVars, awVars, vd_config,
                  gcVars, ceVars >>

NextValidate == Validate

SpecValidate == InitValidate /\ [][NextValidate]_vars

(* --------------------- state of the template cache -------------------- *)

Procs == 1..NumProcs

\* the processes call get_or_clone for one (url, ref): the entry is absent,
\* left incomplete by an interrupted run, or populated
InitCache ==
  /\ gc_cache \in
       { None, Some({}), Some(ClonedFiles), Some(CompleteEntry) }
  /\ gc_cross_fs \in BOOLEAN
  /\ gc_lock = 0
  /\ gc_pc = [p \in Procs |-> "fast_exists"]
  /\ gc_tmp = [p \in Procs |-> {}]
  /\ gc_todo = [p \in Procs |-> {}]
  /\ gc_seen = [p \in Procs |-> "unlocked"]
  /\ gc_ret = [p \in Procs |-> None]
  /\ pc = "cache"
  /\ MergeIdle
  /\ CvIdle
  /\ UpdIdle
  /\ RdIdle
  /\ AwIdle
  /\ VdIdle
  /\ CeIdle

\* what get_or_clone leaves alone besides the cache
CacheFrame ==
  UNCHANGED << mergeVars, pc, cvVars, updVars, rdVars, awVars, vdVars,
               ceVars, gc_cross_fs >>

\* process p moves on
Goto(p, at) == gc_pc' = [gc_pc EXCEPT ![p] = at]

\* process p returns: the lock file is dropped, and what it returned is
\* recorded with the directory as it is at that moment
Return(p, kind, cache) ==
  /\ gc_pc' = [gc_pc EXCEPT ![p] = "done"]
  /\ gc_lock' = IF gc_lock = p THEN 0 ELSE gc_lock
  /\ gc_ret' =
       [gc_ret EXCEPT ![p] =
          Some([kind |-> kind, dir |-> cache,
                during |-> \E q \in Procs \ {p} : gc_pc[q] \in Populating])]

\* the check cached_path.exists(), on the fast path or under the lock
CheckExists(p) ==
  /\ gc_pc[p] \in {"fast_exists", "recheck_exists"}
  /\ Goto(p, IF PathExists(gc_cache)
             THEN (IF gc_pc[p] = "fast_exists" THEN "fast_metadata"
                   ELSE "recheck_metadata")
             ELSE (IF gc_pc[p] = "fast_exists" THEN "lock" ELSE "clone"))
  /\ UNCHANGED << gc_cache, gc_lock, gc_tmp, gc_todo, gc_seen, gc_ret >>
  /\ CacheFrame

\* the check cached_path.join(CACHE_METADATA_FILE).exists()
CheckMetadata(p) ==
  /\ gc_pc[p] \in {"fast_metadata", "recheck_metadata"}
  /\ Goto(p, IF MetadataExists(gc_cache)
             THEN (IF gc_pc[p] = "fast_metadata" THEN "fast_read"
                   ELSE "recheck_read")
             ELSE (IF gc_pc[p] = "fast_metadata" THEN "lock" ELSE "clone"))
  /\ UNCHANGED << gc_cache, gc_lock, gc_tmp, gc_todo, gc_seen, gc_ret >>
  /\ CacheFrame

\* read_cache_metadata, then the return of the cache hit; an Err when the
\* metadata file cannot be read
ReadMetadata(p) ==
  /\ gc_pc[p] \in {"fast_read", "recheck_read"}
  /\ Return(p, IF MetadataExists(gc_cache) THEN "hit" ELSE "err", gc_cache)
  /\ UNCHANGED << gc_cache, gc_tmp, gc_todo, gc_seen >>
  /\ CacheFrame

\* create_dir_all(cache_dir), File::create(lock_path) and lock_exclusive()
LockExclusive(p) ==
  /\ gc_pc[p] = "lock"
  /\ LockAvailable(gc_lock)
  /\ gc_lock' = p
  /\ gc_seen' =
       [gc_seen EXCEPT ![p] =
          IF gc_cache = Some(CompleteEntry) THEN "populated" ELSE "missing"]
  /\ Goto(p, "recheck_exists")
  /\ UNCHANGED << gc_cache, gc_tmp, gc_todo, gc_ret >>
  /\ CacheFrame

\* clone_template returns Ok: the clone is in a fresh temporary directory
CloneTemplate(p) ==
  /\ gc_pc[p] = "clone"
  /\ gc_tmp' = [gc_tmp EXCEPT ![p] = ClonedFiles]
  /\ Goto(p, "write_metadata")
  /\ UNCHANGED << gc_cache, gc_lock, gc_todo, gc_seen, gc_ret >>
  /\ CacheFrame

\* clone_template returns Err, and so does get_or_clone
CloneTemplateErr(p) ==
  /\ gc_pc[p] = "clone"
  /\ Return(p, "err", gc_cache)
  /\ UNCHANGED << gc_cache, gc_tmp, gc_todo, gc_seen >>
  /\ CacheFrame

\* the metadata file is written into the temporary directory
WriteMetadata(p) ==
  /\ gc_pc[p] = "write_metadata"
  /\ gc_tmp' = [gc_tmp EXCEPT ![p] = gc_tmp[p] \cup {CacheMetadataFile}]
  /\ Goto(p, "stale_exists")
  /\ UNCHANGED << gc_cache, gc_lock, gc_todo, gc_seen, gc_ret >>
  /\ CacheFrame

\* "if cached_path.exists()" before the placement
StaleExists(p) ==
  /\ gc_pc[p] = "stale_exists"
  /\ Goto(p, IF PathExists(gc_cache) THEN "remove_dir_all" ELSE "rename")
  /\ UNCHANGED << gc_cache, gc_lock, gc_tmp, gc_todo, gc_seen, gc_ret >>
  /\ CacheFrame

\* remove_dir_all(cached_path) of the stale entry
RemoveDirAll(p) ==
  /\ gc_pc[p] = "remove_dir_all"
  /\ gc_cache' = None
  /\ Goto(p, "rename")
  /\ UNCHANGED << gc_lock, gc_tmp, gc_todo, gc_seen, gc_ret >>
  /\ CacheFrame

\* std::fs::rename of the temporary directory to cached_path succeeds: the
\* entry appears whole, and get_or_clone returns
Rename(p) ==
  /\ gc_pc[p] = "rename"
  /\ ~gc_cross_fs
  /\ gc_cache' = Some(gc_tmp[p])
  /\ gc_tmp' = [gc_tmp EXCEPT ![p] = {}]
  /\ Return(p, "cloned", Some(gc_tmp[p]))
  /\ UNCHANGED << gc_todo, gc_seen >>
  /\ CacheFrame

\* rename fails across filesystems: copy_dir_all starts with
\* create_dir_all(dst) and lists the source directory
RenameFails(p) ==
  /\ gc_pc[p] = "rename"
  /\ gc_cross_fs
  /\ gc_cache' = IF gc_cache = None THEN Some({}) ELSE gc_cache
  /\ gc_todo' = [gc_todo EXCEPT ![p] = gc_tmp[p]]
  /\ Goto(p, "copy")
  /\ UNCHANGED << gc_lock, gc_tmp, gc_seen, gc_ret >>
  /\ CacheFrame

\* copy_dir_all copies the next entry, in the order read_dir lists them
CopyEntry(p) ==
  /\ gc_pc[p] = "copy"
  /\ \E file \in gc_todo[p] :
       /\ gc_cache' = CopyInto(gc_cache, file)
       /\ gc_todo' = [gc_todo EXCEPT ![p] = gc_todo[p] \ {file}]
  /\ UNCHANGED << gc_pc, gc_lock, gc_tmp, gc_seen, gc_ret >>
  /\ CacheFrame

\* copy_dir_all has copied every entry, and get_or_clone returns
CopyDone(p) ==
  /\ gc_pc[p] = "copy"
  /\ gc_todo[p] = {}
  /\ Return(p, "cloned", gc_cache)
  /\ UNCHANGED << gc_cache, gc_tmp, gc_todo, gc_seen >>
  /\ CacheFrame

\* a copy fails: get_or_clone returns Err and leaves what was copied
CopyErr(p) ==
  /\ gc_pc[p] = "copy"
  /\ gc_todo[p] # {}
  /\ Return(p, "err", gc_cache)
  /\ UNCHANGED << gc_cache, gc_tmp, gc_todo, gc_seen >>
  /\ CacheFrame

NextCache ==
  \E p \in Procs :
    \/ CheckExists(p)
    \/ CheckMetadata(p)
    \/ ReadMetadata(p)
    \/ LockExclusive(p)
    \/ CloneTemplate(p)
    \/ CloneTemplateErr(p)
    \/ WriteMetadata(p)
    \/ StaleExists(p)
    \/ RemoveDirAll(p)
    \/ Rename(p)
    \/ RenameFails(p)
    \/ CopyEntry(p)
    \/ CopyDone(p)
    \/ CopyErr(p)

SpecCache == InitCache /\ [][NextCache]_vars

(* --------------------- state of one compose_template ------------------ *)

\* the source strings of the templates on disk
Sources == { <<"A", "B", "C", "D">>[i] : i \in 1..MaxTemplates }

\* the values of [template] name
TemplateNames == { "alpha", "beta", "gamma" }

\* the values of [template] extends: none, a template on disk, or a source
\* that holds no diecut.toml
ExtendsChoices == {None} \cup { Some(src) : src \in Sources \cup {"missing"} }

\* the template at a source: its config and the files of its template/
\* directory, one of them shared by every template
TemplateAt(src, name, extends) ==
  [name |-> name, extends |-> extends,
   variables |-> [n \in {"v", "v_" \o src} |-> src],
   files |-> [f \in {"shared.txt", src \o ".txt"} |-> src]]

\* the depth of recursion the model follows resolve_extends to
MaxDepth == MaxTemplates + 2

\* compose_template is called on the template at "A"
InitCompose ==
  /\ \E names \in [Sources -> TemplateNames] :
       \E exts \in [Sources -> ExtendsChoices] :
         ce_templates =
           [src \in Sources |-> TemplateAt(src, names[src], exts[src])]
  /\ ce_root = "A"
  /\ ce_chain = <<>>
  /\ ce_stack = <<>>
  /\ ce_composed = <<>>
  /\ ce_merged = <<>>
  /\ ce_result = None
  /\ pc = "compose"
  /\ MergeIdle
  /\ CvIdle
  /\ UpdIdle
  /\ RdIdle
  /\ AwIdle
  /\ VdIdle
  /\ GcIdle

\* what compose_template leaves alone
ComposeFrame ==
  UNCHANGED << mergeVars, cvVars, updVars, rdVars, awVars, vdVars, gcVars,
               ce_templates, ce_root >>

\* compose_template up to its call of resolve_extends: Ok(None) for a
\* template that extends nothing
ComposeTemplate ==
  /\ pc = "compose"
  /\ LET config == ce_templates[ce_root]
     IN  IF config.extends = None
         THEN /\ ce_result' = Some(Composed(TRUE, "", <<>>, None, None))
              /\ pc' = "composed"
              /\ UNCHANGED << ce_chain, ce_stack, ce_composed, ce_merged >>
         ELSE /\ ce_merged' = config.variables
              /\ ce_chain' = <<config.name>>
              /\ ce_stack' = <<Frame(config.extends[1], "entry")>>
              /\ pc' = "resolving"
              /\ UNCHANGED << ce_composed, ce_result >>
  /\ ComposeFrame

\* resolve_extends from its entry to its recursive call, or to its return
\* when the base extends nothing or an error is returned
ResolveExtends ==
  /\ pc = "resolving"
  /\ ce_stack # <<>>
  /\ Len(ce_stack) < MaxDepth
  /\ LET frame == ce_stack[Len(ce_stack)]
         source_str == frame.source_str
         callers == SubSeq(ce_stack, 1, Len(ce_stack) - 1)
     IN  /\ frame.at = "entry"
         /\ IF source_str \notin DOMAIN ce_templates
            THEN /\ ce_result' =
                      Some(Composed(FALSE, "ConfigNotFound", <<>>, None, None))
                 /\ ce_stack' = <<>>
                 /\ pc' = "failed"
                 /\ UNCHANGED << ce_chain, ce_composed, ce_merged >>
            ELSE LET base_config == ce_templates[source_str]
                     chain == Append(ce_chain, base_config.name)
                 IN  IF Contains(ce_chain, base_config.name)
                     THEN /\ ce_chain' = chain
                          /\ ce_result' =
                               Some(Composed(FALSE, "CircularExtends", chain,
                                             None, None))
                          /\ ce_stack' = <<>>
                          /\ pc' = "failed"
                          /\ UNCHANGED << ce_composed, ce_merged >>
                     ELSE IF base_config.extends # None
                     THEN /\ ce_chain' = chain
                          /\ ce_stack' =
                               callers
                                 \o << Frame(source_str, "called"),
                                       Frame(base_config.extends[1], "entry") >>
                          /\ UNCHANGED << ce_composed, ce_merged, ce_result, pc >>
                     ELSE /\ ce_chain' = chain
                          /\ ce_composed' =
                               overlay_dir(base_config.files, ce_composed)
                          /\ ce_merged' =
                               merge_variables(base_config.variables, ce_merged)
                          /\ ce_stack' = callers
                          /\ UNCHANGED << ce_result, pc >>
  /\ ComposeFrame

\* resolve_extends after its recursive call returned Ok: the mid-chain
\* template is overlaid and its variables merged
ResolveExtendsReturn ==
  /\ pc = "resolving"
  /\ ce_stack # <<>>
  /\ LET frame == ce_stack[Len(ce_stack)]
         base_config == ce_templates[frame.source_str]
     IN  /\ frame.at = "called"
         /\ ce_composed' = overlay_dir(base_config.files, ce_composed)
         /\ ce_merged' = merge_variables(base_config.variables, ce_merged)
         /\ ce_stack' = SubSeq(ce_stack, 1, Len(ce_stack) - 1)
  /\ UNCHANGED << ce_chain, ce_result, pc >>
  /\ ComposeFrame

\* compose_template after resolve_extends returned Ok: the child is
\* overlaid on the composed directory and the merged config returned
ComposeReturn ==
  /\ pc = "resolving"
  /\ ce_stack = <<>>
  /\ LET dir == overlay_dir(ce_templates[ce_root].files, ce_composed)
     IN  /\ ce_composed' = dir
         /\ ce_result' =
              Some(Composed(TRUE, "", <<>>, Some(dir), Some(ce_merged)))
  /\ pc' = "composed"
  /\ UNCHANGED << ce_chain, ce_stack, ce_merged >>
  /\ ComposeFrame

NextCompose ==
  ComposeTemplate \/ ResolveExtends \/ ResolveExtendsReturn \/ ComposeReturn

SpecCompose == InitCompose /\ [][NextCompose]_vars

\* compose_template runs on: a call that can take a step takes it
SpecComposeLive == SpecCompose /\ WF_vars(NextCompose)

(* --------------------- claims about update_project -------------------- *)

\* C7: update_project persists the answers only as its last step: when
\* loading the answers, fetching, rendering a snapshot, three_way_merge or
\* apply_merge fails, the saved answers file is exactly as it was before;
\* the file changes only in a run that got past apply_merge.
C7_AnswersPersistedLast ==
  /\ ( /\ pc = "update_failed"
       /\ upd_result.step \in
            { "load_answers", "template_source", "fetch_new", "fetch_old",
              "render_old", "render_new", "three_way_merge", "apply_merge" } )
     => answers_files = answers_before
  /\ answers_files # answers_before =>
       \/ pc = "updated"
       \/ pc = "update_failed" /\ upd_result.step = "write_answers"

\* apply_merge failed after it had changed the project
C7_Witness ==
  /\ pc = "update_failed"
  /\ upd_result.step = "apply_merge"
  /\ project_dir # project_before
  /\ answers_files = answers_before
  /\ AnswersFileName \in DOMAIN answers_files

\* the computed variables the new template declares
NewComputed == ComputedNamesOf(upd_result.new_resolved.config)

\* C8: in the environment of the new snapshot every computed variable of
\* the new template holds the value of its expression over that
\* environment, not the computed value stored in SavedAnswers.
C8_ComputedRederived ==
  pc = "updated" =>
    \A c \in NewComputed :
      /\ c \in DOMAIN upd_result.new_variables
      /\ upd_result.new_variables[c] =
           Val("string",
               TeraRender(ExprOf(upd_result.new_resolved.config, c),
                          upd_result.new_variables).text)

\* C9: after a successful update against a Git source the persisted
\* SavedAnswers hold the commit of the template version the new snapshot
\* was rendered from.
C9_CommitPersisted ==
  (pc = "updated" /\ upd_result.source_kind = "Git") =>
    /\ load_answers(answers_files).ok
    /\ load_answers(answers_files).commit_sha = Some(upd_result.new_commit)

\* the SavedAnswers the update left in the project
SavedNow == load_answers(answers_files)

\* C27: after a successful update_project the ref persisted in SavedAnswers
\* is the ref at which the template of the new snapshot was fetched: the
\* next update renders its old snapshot from the template version this
\* update rendered its new snapshot from, with or without a ref override.
C27_PersistedRefIsFetchedRef ==
  (pc = "updated" /\ upd_result.source_kind = "Git") =>
    /\ SavedNow.ok
    /\ get_or_clone(remote_repo, SavedNow.template_ref)
         = upd_result.new_resolved

\* the actions an UpdateReport counts as changes
ReportedChanges ==
  { i \in 1..Len(upd_result.results) :
      upd_result.results[i].action \in
        { "UpdateFromTemplate", "AddFromTemplate", "MarkForRemoval",
          "Conflict" } }

\* C28: update reaches a fixed point: a second update_project right after
\* a successful one, with the same options and an unchanged template,
\* reports no updated, added, marked-for-removal or conflicting file and
\* modifies no project file.
C28_SecondUpdateIsNoop ==
  (pc = "updated" /\ upd_run = 2) =>
    /\ ReportedChanges = {}
    /\ project_dir = project_before

(* ----------------- claims about the variable resolution --------------- *)

\* the references between computed variables contain no cycle: the computed
\* variables can be ranked so that every reference goes to a lower rank
Acyclic(config) ==
  LET names == ComputedNamesOf(config)
  IN  \E rank \in [names -> 1..Cardinality(names)] :
        \A c \in names :
          \A k \in 1..Len(ExprOf(config, c).refs) :
            LET r == ExprOf(config, c).refs[k]
            IN  r \in names => rank[r] < rank[c]

\* phase 1 resolved every prompted variable: no prompt was cancelled and
\* no prompted variable was hidden
Phase1Resolved ==
  /\ cv_result.error # Some(<<"PromptCancelled", "">>)
  /\ PromptedNamesOf(cv_config) \subseteq DOMAIN cv_result.values

\* C10: N computed variables whose references contain no cycle, and go to
\* resolved prompted variables or to other computed variables, are all
\* resolved within N + 1 rounds, whatever the order of iteration; each
\* holds the value of its expression over the final environment.
C10_AcyclicComputedResolve ==
  (pc = "collected" /\ Phase1Resolved /\ Acyclic(cv_config)) =>
    /\ cv_result.ok
    /\ cv_result.rounds <= Cardinality(ComputedNamesOf(cv_config)) + 1
    /\ \A c \in ComputedNamesOf(cv_config) :
         /\ c \in DOMAIN cv_result.values
         /\ cv_result.values[c] =
              Val("string",
                  TeraRender(ExprOf(cv_config, c), cv_result.values).text)

\* a chain c1 <- c2 <- c3 iterated against its dependency order was resolved
C10_Witness ==
  /\ pc = "collected"
  /\ cv_result.ok
  /\ Acyclic(cv_config)
  /\ Cardinality(ComputedNamesOf(cv_config)) = 3
  /\ cv_result.rounds = 3
  /\ ExprOf(cv_config, "c1").refs = <<"c2">>
  /\ ExprOf(cv_config, "c2").refs = <<"c3">>

\* the environment phase 1 left: the values of the variables that are not
\* computed
Phase1Env == { n \in PromptedNamesOf(cv_config) : n \in DOMAIN cv_result.values }

\* every computed variable can be evaluated: the computed variables can be
\* ranked so that every reference goes to a value of phase 1 or to a computed
\* variable of lower rank
CanResolveAll ==
  LET names == ComputedNamesOf(cv_config)
  IN  \E rank \in [names -> 1..Cardinality(names)] :
        \A c \in names :
          \A k \in 1..Len(ExprOf(cv_config, c).refs) :
            LET r == ExprOf(cv_config, c).refs[k]
            IN  IF r \in names THEN rank[r] < rank[c] ELSE r \in Phase1Env

\* C11: when some computed variable can never be evaluated (a reference to a
\* variable that has no value, or a cycle of references), collect_variables
\* returns a ComputedEvaluation error tagged with the name of a computed
\* variable; it never returns an environment that lacks a declared computed
\* variable.
C11_UnresolvableIsError ==
  pc = "collected" =>
    /\ cv_result.ok =>
         ComputedNamesOf(cv_config) \subseteq DOMAIN cv_result.values
    /\ (cv_result.error # Some(<<"PromptCancelled", "">>) /\ ~CanResolveAll) =>
         /\ ~cv_result.ok
         /\ \E c \in ComputedNamesOf(cv_config) :
              cv_result.error = Some(<<"ComputedEvaluation", c>>)

\* a computed variable that references the hidden n1 stopped the collection,
\* although the references between the computed variables hold no cycle
C11_Witness ==
  /\ pc = "collected"
  /\ cv_result.error = Some(<<"ComputedEvaluation", "c1">>)
  /\ Acyclic(cv_config)
  /\ "n1" \notin DOMAIN cv_result.values
  /\ Cardinality(ComputedNamesOf(cv_config)) > 1

\* the position of a variable in diecut.toml
DeclaredAt(name) ==
  CHOOSE i \in 1..Len(cv_declared) : cv_declared[i].name = name

\* the variables that are not computed, have a visibility predicate, and
\* whose predicate references a variable declared before them that is not
\* computed either
WhenOnEarlier ==
  { v \in { cv_declared[i] : i \in 1..Len(cv_declared) } :
      /\ v.computed = None
      /\ v.when # None
      /\ \E j \in 1..(DeclaredAt(v.name) - 1) :
           /\ cv_declared[j].name = v.when[1]
           /\ cv_declared[j].computed = None }

\* C12: phase 1 runs in declaration order: the predicate of a variable that
\* references a visible variable declared before it observes that
\* variable's value, so the variable is collected exactly when that value is
\* truthy.
C12_WhenSeesEarlierDeclared ==
  (pc = "collected" /\ cv_result.ok) =>
    \A v \in WhenOnEarlier :
      v.when[1] \in DOMAIN cv_result.values =>
        (v.name \in DOMAIN cv_result.values
           <=> Truthy(cv_result.values[v.when[1]]))

\* the declarations of the variables that are not computed
PromptedVars ==
  { v \in { cv_declared[i] : i \in 1..Len(cv_declared) } : v.computed = None }

\* the predicate of a variable is false over an environment: its reference
\* has no value there, or a value that is not truthy
WhenIsFalse(v, values) ==
  /\ v.when # None
  /\ v.when[1] \in DOMAIN values => ~Truthy(values[v.when[1]])

\* C13: a variable that is not computed and whose visibility predicate is
\* false, an undefined reference being falsy and no error, is absent from
\* the returned environment, whether or not an override or a default exists
\* for it.
C13_HiddenIsAbsent ==
  (pc = "collected" /\ cv_result.ok) =>
    \A v \in PromptedVars :
      WhenIsFalse(v, cv_result.values) => v.name \notin DOMAIN cv_result.values

\* a, hidden behind a reference to the undeclared u, was left out although
\* it has a default and an override, while b was collected
C13_Witness ==
  /\ pc = "collected"
  /\ cv_result.ok
  /\ \E v \in PromptedVars :
       /\ v.name = "a"
       /\ v.when = Some("u")
       /\ v.default # None
  /\ "a" \in DOMAIN cv_options.data_overrides
  /\ cv_options.use_defaults
  /\ DOMAIN cv_result.values = {"b"}

\* the kind of value a variable of a declared type holds
DeclaredKind(var_type) ==
  CASE var_type = "bool" -> "bool"
    [] var_type = "int" -> "int"
    [] var_type = "float" -> "float"
    [] var_type = "multiselect" -> "array"
    [] OTHER -> "string"

\* the default can be read as a value of the declared type: it is a TOML
\* value of that type already, or a string that parses as one
ReadableAs(default, var_type) ==
  \/ toml_to_tera_value(default)[1] = DeclaredKind(var_type)
  \/ /\ default[1] = "String"
     /\ var_type = "int" => IsI64(default[2])
     /\ var_type = "float" => IsF64(default[2]) /\ default[2] # "nan"

\* C14: without computed variables and without overrides, use_defaults
\* returns the declared defaults, each as a value of the kind its variable
\* declares.
C14_DefaultsOfDeclaredKind ==
  ( /\ pc = "collected"
    /\ cv_result.ok
    /\ ComputedNamesOf(cv_config) = {}
    /\ cv_options.use_defaults
    /\ cv_options.data_overrides = <<>>
    /\ \A v \in PromptedVars :
         v.when = None /\ v.default # None
                       /\ ReadableAs(v.default[1], v.var_type) ) =>
    /\ DOMAIN cv_result.values = { v.name : v \in PromptedVars }
    /\ \A v \in PromptedVars :
         cv_result.values[v.name][1] = DeclaredKind(v.var_type)


(* ------------------- claims about the materializer -------------------- *)

\* the files of the template directory
FileEntries ==
  { rd_resolved.content_dir[i] :
      i \in { j \in 1..Len(rd_resolved.content_dir) :
                ~rd_resolved.content_dir[j].is_dir } }

\* the rendered relative path of an entry, as one string
RenderedStr(e) ==
  PathString(render_relative_path(
               e.path, rd_variables,
               rd_resolved.config.template.templates_suffix).path)

\* a static exclude pattern matches the unrendered relative path
StaticMatch(e) ==
  \E i \in 1..Len(rd_resolved.config.files.exclude) :
    is_match({rd_resolved.config.files.exclude[i]}, RelStr(e.path))

\* the pattern of a conditional rule whose predicate is false matches the
\* rendered relative path
ConditionalMatch(e) ==
  \E i \in 1..Len(rd_resolved.config.files.conditional) :
    LET rule == rd_resolved.config.files.conditional[i]
    IN  /\ ~Truthy(rd_variables[rule.when])
        /\ is_match({rule.pattern}, RenderedStr(e))

\* the relative paths of the files of a plan
PlannedPaths(run) == { run.files[i].relative_path : i \in 1..Len(run.files) }

\* the plans plan_render returned
Plans ==
  { rd_runs[i] : i \in { j \in 1..Len(rd_runs) :
                           rd_runs[j].kind = "plan" /\ rd_runs[j].ok } }

\* C15: static exclude patterns are tested against the unrendered relative
\* path and the patterns of false conditions against the rendered one; the
\* plan holds a file exactly for the entries that neither test matches.
C15_ExcludedByRawOrRendered ==
  \A run \in Plans :
    PlannedPaths(run) =
      { RenderedStr(e) :
          e \in { f \in FileEntries : ~StaticMatch(f) /\ ~ConditionalMatch(f) } }

\* the template file {{name}}.txt, guarded by the false condition on the
\* pattern x.txt, is left out of a plan that holds another file
C15_Witness ==
  \E run \in Plans :
    /\ \E e \in FileEntries : e.path = << <<Ref("name"), Lit(".txt")>> >>
    /\ rd_resolved.config.files.conditional =
         <<[pattern |-> Glob("lit", "x.txt"), when |-> "flag"]>>
    /\ rd_resolved.config.files.exclude = <<>>
    /\ ~Truthy(rd_variables["flag"])
    /\ "x.txt" \notin PlannedPaths(run)
    /\ run.files # <<>>

\* the output path of an entry when the suffix is stripped from its file
\* name only: the directories keep their rendered names
OutputPathOf(e) ==
  LET suffix == rd_resolved.config.template.templates_suffix
      part(i) == RenderTemplate(e.path[i], rd_variables).text
  IN  PathString([i \in 1..Len(e.path) |->
                    IF i = Len(e.path) /\ suffix # ""
                                       /\ EndsWith(part(i), suffix)
                    THEN Truncate(part(i), suffix)
                    ELSE part(i)])

\* C16: the suffix is stripped only from the file name of an output path; a
\* directory whose rendered name ends with the suffix keeps it.
C16_SuffixStrippedFromFileNameOnly ==
  \A run \in Plans :
    \A e \in FileEntries :
      (~StaticMatch(e) /\ ~ConditionalMatch(e)) =>
        OutputPathOf(e) \in PlannedPaths(run)

\* the runs of the walk_and_render that knows render_all
Walks == { rd_runs[i] : i \in { j \in 1..Len(rd_runs) : rd_runs[j].kind = "walk" } }

\* the files walk_and_render emits: those no exclusion matches
Emitted == { e \in FileEntries : ~StaticMatch(e) /\ ~ConditionalMatch(e) }

\* the emitted files whose content is rendered and fails to render
FailsToRender ==
  { e \in Emitted :
      /\ ~ShouldCopyGated(rd_resolved, e, RenderedStr(e))
      /\ ~RenderTemplate(e.content, rd_variables).ok }

\* the same for plan_render, which has no render_all
FailsToRenderInPlan ==
  { e \in Emitted :
      /\ ~ShouldCopy(rd_resolved, e, RenderedStr(e))
      /\ ~RenderTemplate(e.content, rd_variables).ok }

\* the position of an entry in the walk
WalkIndex(e) ==
  CHOOSE i \in 1..Len(rd_resolved.content_dir) : rd_resolved.content_dir[i] = e

\* no later emitted entry is written to the same output path
LastAtItsPath(e) ==
  \A f \in Emitted :
    RenderedStr(f) = RenderedStr(e) => WalkIndex(f) <= WalkIndex(e)

\* C17: a content render failure aborts the materialization of an ordinary
\* template with a RenderError; under render_all it never aborts: the file
\* is written as a verbatim copy of its source and every other emitted file
\* is written too.
C17_RenderFailureFatalUnlessRenderAll ==
  /\ \A i \in 1..Len(rd_runs) :
       (rd_runs[i].kind = "plan" /\ FailsToRenderInPlan # {}) =>
         (~rd_runs[i].ok /\ rd_runs[i].error = "RenderError")
  /\ \A run \in Walks :
       /\ (~rd_resolved.render_all /\ FailsToRender # {}) =>
            (~run.ok /\ run.error = "RenderError")
       /\ rd_resolved.render_all =>
            /\ run.ok
            /\ \A e \in Emitted : RenderedStr(e) \in DOMAIN run.output
            /\ \A e \in FailsToRender :
                 LastAtItsPath(e) =>
                   run.output[RenderedStr(e)] = SourceText(e.content)

\* under render_all the first file failed to render and was copied, and the
\* second file was rendered after it
C17_Witness ==
  \E run \in Walks :
    /\ rd_resolved.render_all
    /\ run.ok
    /\ Len(rd_resolved.content_dir) = MaxEntries
    /\ rd_resolved.content_dir[1] \in FailsToRender
    /\ rd_resolved.content_dir[MaxEntries] \in Emitted \ FailsToRender
    /\ run.output[RenderedStr(rd_resolved.content_dir[MaxEntries])] = "v=x"
    /\ Cardinality(DOMAIN run.output) = MaxEntries

\* C18: plan_render and execute_plan run twice for the same template and
\* variables into the same output directory leave, after the second run,
\* the tree the first run left: no content changed, no file added or
\* removed.
C18_MaterializeIdempotent ==
  \A i \in 1..Len(rd_runs) :
    (i > 1 /\ rd_runs[i].kind = "plan" /\ rd_runs[i - 1].kind = "plan") =>
      /\ rd_runs[i].ok = rd_runs[i - 1].ok
      /\ rd_runs[i].output = rd_runs[i - 1].output

\* two runs each wrote two files, the second run over the files of the first
C18_Witness ==
  /\ Len(rd_runs) = MaxRuns
  /\ \A i \in 1..Len(rd_runs) :
       /\ rd_runs[i].kind = "plan"
       /\ rd_runs[i].ok
       /\ Len(rd_runs[i].files) = MaxEntries
  /\ DOMAIN rd_output # {}

\* C29: within one generation plan no two PlannedFiles have the same
\* output-relative path after name rendering and suffix stripping, so what
\* execute_plan leaves at a path does not depend on the order of the walk.
C29_PlannedPathsDistinct ==
  \A run \in Plans :
    \A i, j \in 1..Len(run.files) :
      run.files[i].relative_path = run.files[j].relative_path => i = j

(* ------------------- claims about the answers file -------------------- *)

\* the answers file a run wrote
WrittenFile(r) == aw_files[r][aw_config.answers.file]

\* the names of the variables the config marks secret
SecretNames ==
  { aw_config.variables[i].name :
      i \in { j \in 1..Len(aw_config.variables) :
                aw_config.variables[j].secret } }

\* C19: the answers file write_answers writes holds no entry for a variable
\* marked secret, so two runs whose variables differ only in secret values
\* write the same [variables] table.
C19_SecretsNeverPersisted ==
  /\ \A r \in Runs :
       aw_at[r] # "generated" =>
         DOMAIN WrittenFile(r).variables \cap SecretNames = {}
  /\ (\A r \in Runs : aw_at[r] # "generated") =>
       WrittenFile("first").variables = WrittenFile("second").variables

\* both runs wrote the answers of a config where a is secret and b is not,
\* holding different values for a: the tables hold b alone
C19_Witness ==
  /\ \A r \in Runs : aw_at[r] # "generated"
  /\ SecretNames = {"a"}
  /\ "a" \in DOMAIN aw_variables["first"]
  /\ aw_variables["first"]["a"] # aw_variables["second"]["a"]
  /\ DOMAIN WrittenFile("first").variables = {"b"}

\* the variables of a run that are not secret and have a TOML value
Persisted(r) ==
  { n \in DOMAIN aw_variables[r] \ SecretNames :
      tera_value_to_toml(aw_variables[r][n]) # None }

\* C20: load_answers on the project directory succeeds and returns the
\* template source, the ref, the commit and the variables that are not
\* secret as write_answers last wrote them, whatever the config.
C20_LoadReturnsWhatWasWritten ==
  \A r \in Runs :
    aw_at[r] = "loaded" =>
      LET saved == aw_loaded[r][1]
      IN  /\ saved.ok
          /\ aw_source.url # None => saved.template_source = aw_source.url[1]
          /\ saved.template_ref = aw_source.git_ref
          /\ saved.commit_sha = aw_source.commit_sha
          /\ saved.answers =
               [n \in Persisted(r) |->
                  tera_value_to_toml(aw_variables[r][n])[1]]

(* --------------------- claims about the merge engine ------------------ *)

\* the action three_way_merge reports for a path: omitted means Unchanged
ActionOf(results, p) ==
  IF \E i \in 1..Len(results) : results[i].rel_path = p
  THEN (CHOOSE r \in { results[i] : i \in 1..Len(results) } :
          r.rel_path = p).action
  ELSE "Unchanged"

Classified == pc \in {"merged", "applied", "apply_failed"}

InAllThree(p) ==
  /\ p \in DOMAIN project_before
  /\ p \in DOMAIN old_snapshot_dir
  /\ p \in DOMAIN new_snapshot_dir

AllPaths ==
  DOMAIN project_before \cup DOMAIN old_snapshot_dir
    \cup DOMAIN new_snapshot_dir

\* C1: a path present in all three trees is classified by byte-equality:
\* Unchanged when project = old = new, UpdateFromTemplate when
\* project = old # new, KeepUser when project # old = new, and when both
\* differ Unchanged if project = new, else Conflict.
C1_AllThreeByEquality ==
  Classified =>
    \A p \in AllPaths :
      InAllThree(p) =>
        LET pr == project_before[p]
            o == old_snapshot_dir[p]
            n == new_snapshot_dir[p]
            act == ActionOf(merge_results, p)
        IN  /\ (pr = o /\ o = n) => act = "Unchanged"
            /\ (pr = o /\ o # n) => act = "UpdateFromTemplate"
            /\ (pr # o /\ o = n) => act = "KeepUser"
            /\ (pr # o /\ o # n /\ pr = n) => act = "Unchanged"
            /\ (pr # o /\ o # n /\ pr # n) => act = "Conflict"

\* a merge has classified a path on which user and template converged
C1_Witness ==
  /\ pc = "merged"
  /\ \E p \in AllPaths :
       /\ InAllThree(p)
       /\ project_before[p] # old_snapshot_dir[p]
       /\ old_snapshot_dir[p] # new_snapshot_dir[p]
       /\ project_before[p] = new_snapshot_dir[p]
  /\ \E p \in AllPaths :
       /\ InAllThree(p)
       /\ ActionOf(merge_results, p) = "Conflict"

\* C2: a path missing from at least one tree is classified by presence:
\* only new -> AddFromTemplate; only project -> KeepUser; only old ->
\* Unchanged; old+project -> MarkForRemoval if project = old, else Conflict;
\* new+project -> Unchanged if project = new, else Conflict; old+new ->
\* KeepUser if old = new, else Conflict.
C2_ByPresence ==
  Classified =>
    \A p \in AllPaths :
      LET inP == p \in DOMAIN project_before
          inO == p \in DOMAIN old_snapshot_dir
          inN == p \in DOMAIN new_snapshot_dir
          act == ActionOf(merge_results, p)
      IN  /\ (~inO /\ inN /\ ~inP) => act = "AddFromTemplate"
          /\ (~inO /\ ~inN /\ inP) => act = "KeepUser"
          /\ (inO /\ ~inN /\ ~inP) => act = "Unchanged"
          /\ (inO /\ ~inN /\ inP) =>
               act = (IF project_before[p] = old_snapshot_dir[p]
                      THEN "MarkForRemoval" ELSE "Conflict")
          /\ (~inO /\ inN /\ inP) =>
               act = (IF project_before[p] = new_snapshot_dir[p]
                      THEN "Unchanged" ELSE "Conflict")
          /\ (inO /\ inN /\ ~inP) =>
               act = (IF old_snapshot_dir[p] = new_snapshot_dir[p]
                      THEN "KeepUser" ELSE "Conflict")

\* a merge has classified a file the template removed and the user edited,
\* next to a file the template removed and the user left alone
C2_Witness ==
  /\ pc = "merged"
  /\ \E p, q \in AllPaths :
       /\ p \in DOMAIN project_before /\ p \in DOMAIN old_snapshot_dir
       /\ p \notin DOMAIN new_snapshot_dir
       /\ project_before[p] # old_snapshot_dir[p]
       /\ q \in DOMAIN project_before /\ q \in DOMAIN old_snapshot_dir
       /\ q \notin DOMAIN new_snapshot_dir
       /\ project_before[q] = old_snapshot_dir[q]
       /\ ActionOf(merge_results, q) = "MarkForRemoval"

\* C3: a path whose old and new snapshot contents are equal never yields
\* Conflict or UpdateFromTemplate, whatever the project holds there; the
\* outcome is Unchanged or KeepUser.
C3_StableTemplateNeverConflicts ==
  Classified =>
    \A p \in AllPaths :
      ( /\ p \in DOMAIN old_snapshot_dir
        /\ p \in DOMAIN new_snapshot_dir
        /\ old_snapshot_dir[p] = new_snapshot_dir[p] )
      => ActionOf(merge_results, p) \in {"Unchanged", "KeepUser"}

\* a merge has classified a stable template file the user deleted, next to
\* a stable template file the user edited
C3_Witness ==
  /\ pc = "merged"
  /\ \E p, q \in AllPaths :
       /\ p \in DOMAIN old_snapshot_dir /\ p \in DOMAIN new_snapshot_dir
       /\ old_snapshot_dir[p] = new_snapshot_dir[p]
       /\ p \notin DOMAIN project_before
       /\ q \in DOMAIN old_snapshot_dir /\ q \in DOMAIN new_snapshot_dir
       /\ old_snapshot_dir[q] = new_snapshot_dir[q]
       /\ q \in DOMAIN project_before
       /\ project_before[q] # old_snapshot_dir[q]

\* the file at p is the same in both trees: same content, or absent in both
SameFile(tree_a, tree_b, p) ==
  IF p \in DOMAIN tree_a
  THEN p \in DOMAIN tree_b /\ tree_a[p] = tree_b[p]
  ELSE p \notin DOMAIN tree_b

\* every line of lines occurs in text
HasLines(text, lines) ==
  \A i \in 1..Len(lines) : \E j \in 1..Len(text) : text[j] = lines[i]

\* C4: applying a Conflict entry never overwrites the project file: after
\* apply_merge the file at the conflicting path is what it was before, and
\* the sibling <path>.rej exists and holds the user's and the new version.
C4_ConflictNeverOverwrites ==
  pc = "applied" =>
    \A i \in 1..Len(merge_results) :
      merge_results[i].action = "Conflict" =>
        LET p == merge_results[i].rel_path
        IN  /\ SameFile(project_dir, project_before, p)
            /\ RejPath(p) \in DOMAIN project_dir
            /\ HasLines(project_dir[RejPath(p)],
                        Prefixed("-", read_to_string(project_before, p)))
            /\ HasLines(project_dir[RejPath(p)],
                        Prefixed("+", read_to_string(new_snapshot_dir, p)))

\* C5: applying a MarkForRemoval entry never deletes anything: after
\* apply_merge the original file exists with unchanged content, and the
\* sibling <path>.removing exists and holds the explanatory message.
C5_MarkForRemovalNeverDeletes ==
  pc = "applied" =>
    \A i \in 1..Len(merge_results) :
      merge_results[i].action = "MarkForRemoval" =>
        LET p == merge_results[i].rel_path
        IN  /\ p \in DOMAIN project_dir
            /\ project_dir[p] = project_before[p]
            /\ RemovingPath(p) \in DOMAIN project_dir
            /\ project_dir[RemovingPath(p)] = RemovalMsg

\* C6: after a successful apply_merge every UpdateFromTemplate or
\* AddFromTemplate path exists in the project with the bytes of the new
\* snapshot's file.
C6_TemplateBytesCopied ==
  pc = "applied" =>
    \A i \in 1..Len(merge_results) :
      merge_results[i].action \in {"UpdateFromTemplate", "AddFromTemplate"} =>
        LET p == merge_results[i].rel_path
        IN  /\ p \in DOMAIN project_dir
            /\ project_dir[p] = new_snapshot_dir[p]

\* apply_merge succeeded on an added file named like the .rej artifact of a
\* conflict applied before it, and on an updated file
C6_Witness ==
  /\ pc = "applied"
  /\ \E i, j \in 1..Len(merge_results) :
       /\ merge_results[i].action = "Conflict"
       /\ merge_results[j].action = "AddFromTemplate"
       /\ merge_results[j].rel_path = RejPath(merge_results[i].rel_path)

\* the paths three_way_merge reported
ReportedPaths == { merge_results[i].rel_path : i \in 1..Len(merge_results) }

\* the classification table gives Unchanged for p: nothing differs where the
\* project has the file, or only the old snapshot has it
TableUnchanged(p) ==
  LET inP == p \in DOMAIN project_before
      inO == p \in DOMAIN old_snapshot_dir
      inN == p \in DOMAIN new_snapshot_dir
  IN  \/ inP /\ inO /\ inN /\ project_before[p] = old_snapshot_dir[p]
           /\ old_snapshot_dir[p] = new_snapshot_dir[p]
      \/ inP /\ inO /\ inN /\ project_before[p] # old_snapshot_dir[p]
           /\ old_snapshot_dir[p] # new_snapshot_dir[p]
           /\ project_before[p] = new_snapshot_dir[p]
      \/ inP /\ ~inO /\ inN /\ project_before[p] = new_snapshot_dir[p]
      \/ ~inP /\ inO /\ ~inN

\* C21: three_way_merge returns at most one entry per relative path; its
\* entries are exactly the paths of the union of the three file sets whose
\* classification is not Unchanged; no entry has action Unchanged, and
\* identical old, new and project trees give an empty result.
C21_OneEntryPerChangedPath ==
  Classified =>
    /\ \A i, j \in 1..Len(merge_results) :
         merge_results[i].rel_path = merge_results[j].rel_path => i = j
    /\ ReportedPaths = { p \in AllPaths : ~TableUnchanged(p) }
    /\ \A i \in 1..Len(merge_results) :
         merge_results[i].action # "Unchanged"
    /\ ( /\ project_before = old_snapshot_dir
         /\ old_snapshot_dir = new_snapshot_dir ) => merge_results = <<>>

\* a merge reported two paths and left out a third, unchanged one
C21_Witness ==
  /\ pc = "merged"
  /\ Len(merge_results) = 1
  /\ \E p \in AllPaths :
       /\ InAllThree(p)
       /\ p \notin ReportedPaths
       /\ project_before[p] = new_snapshot_dir[p]

\* C22: classification without apply has no effect on disk: when
\* three_way_merge returns, no file of the project, the old snapshot or the
\* new snapshot has been created, modified or removed, so no .rej or
\* .removing artifact has appeared.
C22_ClassificationHasNoEffect ==
  [][pc = "start" =>
       /\ project_dir' = project_dir
       /\ old_snapshot_dir' = old_snapshot_dir
       /\ new_snapshot_dir' = new_snapshot_dir
       /\ \A p \in DOMAIN project_dir :
            /\ RejPath(p) \in DOMAIN project_dir' =>
                 RejPath(p) \in DOMAIN project_dir
            /\ RemovingPath(p) \in DOMAIN project_dir' =>
                 RemovingPath(p) \in DOMAIN project_dir]_vars

\* a merge classified a conflict and a change to apply, and the project is
\* as it was
C22_Witness ==
  /\ pc = "merged"
  /\ project_dir = project_before
  /\ \E i, j \in 1..Len(merge_results) :
       /\ merge_results[i].action = "Conflict"
       /\ merge_results[j].action \in
            {"MarkForRemoval", "AddFromTemplate", "UpdateFromTemplate"}

\* C26: KeepUser and Unchanged are no-ops of apply_merge: every project file
\* whose path was classified KeepUser, or omitted as Unchanged, has the same
\* content after apply_merge as before; no other entry's .rej or .removing
\* artifact and no other entry's copy from the new snapshot overwrites it.
C26_KeptFilesUntouched ==
  pc = "applied" =>
    \A p \in DOMAIN project_before :
      ActionOf(merge_results, p) \in {"KeepUser", "Unchanged"} =>
        SameFile(project_dir, project_before, p)

(* ------------------------ claims about validate ----------------------- *)

\* the variables of the validated config
ValidatedVars ==
  { vd_config.variables[i] : i \in 1..Len(vd_config.variables) }

\* C23: every config accepted by validate gives each variable of kind
\* select or multiselect a non-empty choice set: a choice variable with no
\* choices, or with an empty choice list, is rejected.
C23_ChoiceKindsHaveChoices ==
  (vd_result # None /\ vd_result[1].ok) =>
    \A var \in ValidatedVars :
      var.var_type \in {"select", "multiselect"} =>
        /\ var.choices # None
        /\ var.choices[1] # <<>>

(* --------------------- claims about the template cache ---------------- *)

\* the processes cloning or placing a clone
PopulatingProcs == { p \in Procs : gc_pc[p] \in Populating }

\* C24: among the processes calling get_or_clone for one (url, ref) at
\* most one is cloning and populating the entry at any time, and a caller
\* that obtains the lock after the entry has been populated returns the
\* cached entry without cloning again.
C24_OneClonerPerKey ==
  /\ Cardinality(PopulatingProcs) <= 1
  /\ \A p \in Procs :
       gc_seen[p] = "populated" =>
         /\ p \notin PopulatingProcs
         /\ gc_tmp[p] = {}
         /\ gc_ret[p] # None => gc_ret[p][1].kind = "hit"

\* one process cloned while the other waited for the lock, and the other
\* then returned the entry it found under the lock
C24_Witness ==
  \E p, q \in Procs :
    /\ gc_ret[p] # None /\ gc_ret[p][1].kind = "cloned"
    /\ gc_seen[q] = "populated"
    /\ gc_ret[q] # None /\ gc_ret[q][1].kind = "hit"

\* C30: get_or_clone never returns a partially populated entry: when it
\* reports a cache hit while another process is populating or replacing
\* the key, the returned directory holds the complete cloned template and
\* its metadata file.
C30_HitIsComplete ==
  \A p \in Procs :
    (gc_ret[p] # None /\ gc_ret[p][1].kind = "hit" /\ gc_ret[p][1].during) =>
      gc_ret[p][1].dir = Some(CompleteEntry)

(* -------------------- claims about compose_template ------------------- *)

RECURSIVE Revisits(_, _)
\* following extends from the template at src comes back to a template
\* already passed, every template on the way being on disk
Revisits(src, passed) ==
  IF src \notin DOMAIN ce_templates THEN FALSE
  ELSE IF src \in passed THEN TRUE
  ELSE IF ce_templates[src].extends = None THEN FALSE
  ELSE Revisits(ce_templates[src].extends[1], passed \cup {src})

\* compose_template has returned
ComposeReturned == pc \in {"composed", "failed"}

\* C25: resolving an extends chain always terminates: compose_template
\* returns, the recursion never goes deeper than the templates there are,
\* and when the chain revisits a template already on it the result is a
\* CircularExtends error whose chain ends with the repeated name.
C25_ExtendsTerminates ==
  /\ <>ComposeReturned
  /\ [](Len(ce_stack) <= MaxTemplates)
  /\ []((ComposeReturned /\ Revisits(ce_root, {})) =>
          /\ ~ce_result[1].ok
          /\ ce_result[1].error = "CircularExtends"
          /\ ce_result[1].chain = ce_chain
          /\ \E i \in 1..(Len(ce_chain) - 1) :
               ce_chain[i] = ce_chain[Len(ce_chain)])

\* A extends B and B extends A: the error names alpha, beta, alpha
C25_Witness ==
  /\ pc = "failed"
  /\ ce_templates["A"].extends = Some("B")
  /\ ce_templates["B"].extends = Some("A")
  /\ ce_result[1].error = "CircularExtends"
  /\ ce_result[1].chain = <<"alpha", "beta", "alpha">>

====
